---- MODULE Spec2Model ----
(***************************************************************************)
(* Model of the moderation and tic-tac-toe engine of the two bot programs  *)
(* of the repository: src/bot.py ("bot") and src/tg-bot/bot.py ("tg").     *)
(*                                                                         *)
(* Scheduling.  Every handler is a coroutine on one event loop: the code   *)
(* between two awaits runs atomically, and handlers of different updates   *)
(* may interleave at their awaits (spec section 5).  The stepwise          *)
(* specifications (SpecGame, SpecWarnRace) split a handler at the awaits   *)
(* after which it still reads or writes shared state; the sequential ones  *)
(* (SpecPlay, SpecMod) run each handler to its end in one action.          *)
(* SpecParse applies parse_duration of either program to a set of texts.   *)
(* SpecRoles, SpecSanction, SpecLobby and SpecAbandon are sequential too:  *)
(* the role commands, the timed sanctions, two sessions side by side, and  *)
(* sessions among the other events of a group.  SpecPayload encodes and    *)
(* decodes the data of a game button; SpecCallback runs button_handler on  *)
(* any text that arrives as callback data.  SpecGate judges the commands   *)
(* against the membership the platform holds.  SpecFinish plays one        *)
(* session to its end under weak fairness of the player on turn.           *)
(*                                                                         *)
(* External calls (answer, edit, reply, member lookup, ban) either return  *)
(* or raise; the outcome is an input of the action that makes the call.    *)
(***************************************************************************)
EXTENDS Integers, Sequences, FiniteSets, TLC

VARIABLES
    impl,            \* which program runs: "bot" (src/bot.py) or "tg" (src/tg-bot/bot.py)
    active_games,    \* tg: game id -> session
    allocated,       \* ghost: game ids handed out so far
    cb,              \* tg: the button_handler coroutines in flight, per slot
    race,            \* ghost: the pair of callbacks racing for one empty cell
    delivered,       \* ghost: number of interleaved callbacks delivered
    last,            \* ghost: what the last callback handled in one piece did
    mover,           \* ghost: the actor of the last accepted move
    group_states,    \* bot: chat id -> group record
    group_warnings,  \* tg: chat id -> user id -> list of reasons
    group_automode,  \* tg: chat id -> mode
    group_roles,     \* tg: chat id -> user id -> role name
    wh,              \* bot: the warn_user coroutines in flight, per slot
    lastw,           \* ghost: what the last warn command handled in one piece did
    tally,           \* ghost: per subject, warn calls / ban requests counted
    pd               \* a call of parse_duration: its argument and what it returned;
                     \* in SpecPayload and SpecCallback the payload of a callback,
                     \* in SpecGate the membership of the invoker, in SpecFinish
                     \* the count of accepted presses

gameVars == <<active_games, allocated, cb, race, delivered, last, mover>>
modVars  == <<group_states, group_warnings, group_automode, group_roles, wh, lastw,
              tally>>
vars     == <<impl, active_games, allocated, cb, race, delivered, last, mover,
              group_states, group_warnings, group_automode, group_roles, wh, lastw,
              tally, pd>>

----------------------------------------------------------------------------
(* Identities and inputs.                                                  *)

Users      == {"u1", "u2", "u3"}
Initiators == {"u1"}
Opponents  == {"u1", "u2"}
GameIds == {"g1"}
LobbyIds == {"g1", "g2"}
Chats   == {-1}
Slots   == {"h1", "h2"}
Cells   == 0 .. 8
None    == "none"

\* At most this many interleaved callbacks are delivered in SpecGame.
MaxCallbacks == 2

----------------------------------------------------------------------------
(* The tic-tac-toe session (tg).                                           *)

Empty == " "

\* "board": [" "] * 9
EmptyBoard == [c \in Cells |-> Empty]

NewGame_swapped(user, opponent_id, chat_id) ==
    [players |-> [s \in 0 .. 1 |-> IF s = 0 THEN opponent_id ELSE user],
     board   |-> EmptyBoard,
     turn    |-> 0,
     chat_id |-> chat_id]

\* the session stored by tictactoe
NewGame(user, opponent_id, chat_id) ==
    [players |-> [s \in 0 .. 1 |-> IF s = 0 THEN user ELSE opponent_id],
     board   |-> EmptyBoard,
     turn    |-> 0,
     chat_id |-> chat_id]

win_patterns ==
    << <<0,1,2>>, <<3,4,5>>, <<6,7,8>>, <<0,3,6>>, <<1,4,7>>, <<2,5,8>>,
       <<0,4,8>>, <<2,4,6>> >>

\* the for loop over win_patterns: some pattern holds three equal marks
HasWin(board) ==
    \E i \in 1 .. Len(win_patterns) :
        LET pattern == win_patterns[i] IN
            /\ board[pattern[1]] = board[pattern[2]]
            /\ board[pattern[2]] = board[pattern[3]]
            /\ board[pattern[3]] # Empty

\* " " not in game["board"]
BoardFull(board) == \A c \in Cells : board[c] # Empty

TurnOk_anyone(game, actor) == actor \in {game.players[0], game.players[1]}

\* query.from_user.id != game["players"][game["turn"]] is the rejection
TurnOk(game, actor) == actor = game.players[game.turn]

CellFree_always(game, pos) == TRUE

\* game["board"][pos] != " " is the rejection
CellFree(game, pos) == game.board[pos] = Empty

\* symbol = "X" if game["turn"] == 0 else "O"
Symbol(turn) == IF turn = 0 THEN "X" ELSE "O"

NextTurn_stay(turn) == turn

\* game["turn"] = 1 - game["turn"]
NextTurn(turn) == 1 - turn

Outcome_full_first(board) ==
    IF BoardFull(board) THEN "Drawn"
    ELSE IF HasWin(board) THEN "Won"
    ELSE "Moved"

\* lines 655 and 660: `if winner is not None` comes before
\* `if " " not in game["board"]`
Outcome(board) ==
    IF HasWin(board) THEN "Won"
    ELSE IF BoardFull(board) THEN "Drawn"
    ELSE "Moved"

\* The part of button_handler that runs without an await: the lookup, the two
\* checks, the placement, the win and draw tests and the turn flip.  On a win or
\* a draw the session stays in the store: the del comes after the announcement.
apply_move(games, game_id, actor, pos) ==
    IF game_id \notin DOMAIN games
    THEN [games |-> games, result |-> "GameNotFound"]
    ELSE LET game == games[game_id] IN
         IF ~TurnOk(game, actor)
         THEN [games |-> games, result |-> "NotYourTurn"]
         ELSE IF ~CellFree(game, pos)
         THEN [games |-> games, result |-> "CellOccupied"]
         ELSE LET board == [game.board EXCEPT ![pos] = Symbol(game.turn)]
                  placed == [games EXCEPT ![game_id].board = board]
                  ended == Outcome(board)
              IN  IF ended # "Moved"
                  THEN [games |-> placed, result |-> ended]
                  ELSE [games  |-> [placed EXCEPT ![game_id].turn = NextTurn(game.turn)],
                        result |-> "Moved"]

\* del active_games[game_id]
Remove_pair(games, game_id) ==
    [g \in {x \in DOMAIN games : games[x].players # games[game_id].players} |-> games[g]]

Remove(games, game_id) == [g \in DOMAIN games \ {game_id} |-> games[g]]

Accepted == {"Moved", "Won", "Drawn"}
Rejected == {"GameNotFound", "NotYourTurn", "CellOccupied"}

----------------------------------------------------------------------------
(* Geometry of the board, stated without the pattern table.                *)

Lines ==
    {{3 * r + c : c \in 0 .. 2} : r \in 0 .. 2} \cup
    {{3 * r + c : r \in 0 .. 2} : c \in 0 .. 2} \cup
    {{3 * k + k : k \in 0 .. 2}, {3 * k + (2 - k) : k \in 0 .. 2}}

ThreeInLine(board) ==
    \E line \in Lines : \E m \in {"X", "O"} : \A c \in line : board[c] = m

Marks(board) == Cardinality({c \in Cells : board[c] # Empty})

SeatOf(mark) == IF mark = "X" THEN 0 ELSE 1

----------------------------------------------------------------------------
(* Moderation state and inputs.  Chat identifiers are integers: a group    *)
(* has a negative id, a private chat a positive one.  src/bot.py registers *)
(* its moderation handlers with a group filter, so they see groups only.   *)

ModChats == {-1, 1}
Group    == CHOOSE c \in ModChats : c < 0
Invokers == {"u1"}
Targets  == {"u2", "u3"}
Owners   == {"u3"}
WSlots   == {"w1", "w2"}
Reasons  == {"spam"}
Modes_open == {"strict", "normal", "fun", "weird"}
Modes    == {"strict", "normal", "fun"}
ModeArgs == {"strict", "normal", "fun", "STRICT", "weird"}
RoleNames == {"mod", "vip"}

\* What get_chat_administrators returns to is_admin of src/bot.py: a list of
\* administrators, or an exception.
AdminReports == {[ok |-> TRUE, ids |-> {}], [ok |-> TRUE, ids |-> {"u1"}],
                 [ok |-> FALSE, ids |-> {}]}

\* What the call context.bot.get_chat_member(...) gives is_admin of
\* src/tg-bot/bot.py, which does not await it: a member with a status, an
\* object without a status attribute ("pending": the call is a coroutine
\* function in the library's asynchronous releases), or an exception ("raise").
MemberReports == {"administrator", "creator", "member", "pending", "raise"}

\* At most this many warn commands in all pass the gate.
MaxWarnCalls == 4

NoTally == [streak |-> 0, calls |-> 0, bans |-> 0, banned |-> 0, crossings |-> 0,
            soft |-> FALSE]

NoLastW == [op |-> None, target |-> None, pre |-> 0, reported |-> 0, mode |-> None,
            notified |-> FALSE, banReq |-> 0, banOK |-> FALSE, after |-> 0,
            admin |-> FALSE, why |-> None, changed |-> FALSE, error |-> FALSE,
            before |-> FALSE, others |-> TRUE, repeat |-> FALSE, arg |-> None,
            soft |-> FALSE]

IdleWarn == [pc |-> "idle", chat_id |-> 0, target |-> None, warnings |-> 0]

\* str.lower() on the mode argument
Lower(arg) == IF arg = "STRICT" THEN "strict" ELSE arg

----------------------------------------------------------------------------
(* src/bot.py: group state and warn_user.                                  *)

NewGroup_fun == [warnings |-> << >>, roles |-> << >>, automode |-> "fun"]

\* the record created by get_group_state (the templates are left out)
NewGroup == [warnings |-> << >>, roles |-> << >>, automode |-> "normal"]

get_group_state_fresh(states, chat_id) ==
    [c \in DOMAIN states \cup {chat_id} |-> IF c = chat_id THEN NewGroup ELSE states[c]]

get_group_state(states, chat_id) ==
    IF chat_id \in DOMAIN states
    THEN states
    ELSE [c \in DOMAIN states \cup {chat_id} |->
             IF c = chat_id THEN NewGroup ELSE states[c]]

is_admin_everyone(user_id, admins) == TRUE

is_admin_open(user_id, admins) == ~admins.ok \/ user_id \in admins.ids

is_admin_cached(user_id, admins) ==
    lastw.before \/ (admins.ok /\ user_id \in admins.ids)

\* is_admin of src/bot.py: membership in the reported list, False on an exception
is_admin(user_id, admins) == admins.ok /\ user_id \in admins.ids

\* group["warnings"].get(target_id_str, 0)
CountIn(states, chat_id, target) ==
    IF chat_id \in DOMAIN states /\ target \in DOMAIN states[chat_id].warnings
    THEN states[chat_id].warnings[target]
    ELSE 0

SetCount(states, chat_id, target, n) ==
    [states EXCEPT ![chat_id].warnings =
        [t \in DOMAIN @ \cup {target} |-> IF t = target THEN n ELSE @[t]]]

Incremented_capped(n) == IF n >= 3 THEN 3 ELSE n + 1

\* group["warnings"][target_id_str] += 1
Incremented(n) == n + 1

\* lines 536-543: the group record is fetched (and created), the count starts
\* at 0 and is incremented
warn_count(states, chat_id, target) ==
    LET s == get_group_state(states, chat_id) IN
        SetCount(s, chat_id, target, Incremented(CountIn(s, chat_id, target)))

\* line 548: warnings >= 3 and group["automode"] == "strict"
Escalates(warnings, automode) == warnings >= 3 /\ automode = "strict"

\* line 553: group["warnings"][target_id_str] = 0
ResetTo(n) == 0

\* line 553 on the stored record
warn_reset(states, chat_id, target) ==
    SetCount(states, chat_id, target, ResetTo(CountIn(states, chat_id, target)))

----------------------------------------------------------------------------
(* parse_duration, in both programs.  A text is a sequence of characters;  *)
(* the regular expressions are matched character by character, with       *)
(* re.match semantics: anchored at the start, free at the end.             *)

DigitChars == {"0", "1", "2"}
SpaceChars == {" "}

DigitVal(c) == IF c = "0" THEN 0 ELSE IF c = "1" THEN 1 ELSE 2

\* str.lower() / re.IGNORECASE on the letters the inputs use in upper case
LowerChar(c) == IF c = "D" THEN "d" ELSE IF c = "H" THEN "h" ELSE c

LowerStr(s) == [i \in 1 .. Len(s) |-> LowerChar(s[i])]

Drop(s, k) == SubSeq(s, k + 1, Len(s))

IsPrefix(w, s) == Len(w) <= Len(s) /\ SubSeq(s, 1, Len(w)) = w

\* the length of the longest prefix of s made of characters of set cs
RECURSIVE Run(_, _)
Run(s, cs) ==
    IF s = << >> \/ s[1] \notin cs THEN 0 ELSE 1 + Run(Tail(s), cs)

\* int() of a sequence of decimal digits
RECURSIVE IntOf(_)
IntOf(ds) ==
    IF ds = << >> THEN 0
    ELSE 10 * IntOf(SubSeq(ds, 1, Len(ds) - 1)) + DigitVal(ds[Len(ds)])

Minute == <<"m", "i", "n", "u", "t", "e">>
Hour   == <<"h", "o", "u", "r">>
Day    == <<"d", "a", "y">>
Week   == <<"w", "e", "e", "k">>
Month  == <<"m", "o", "n", "t", "h">>
Plural(w) == w \o <<"s">>

\* None, or a timedelta given in seconds
NoSpan == [ok |-> FALSE, secs |-> 0]
Span(secs) == [ok |-> TRUE, secs |-> secs]

Seconds(unit) ==
    IF unit = Minute THEN 60
    ELSE IF unit = Hour THEN 3600
    ELSE IF unit = Day THEN 86400
    ELSE IF unit = Week THEN 7 * 86400
    ELSE 30 * 86400

\* the alternatives of a group, tried from left to right: the first one that
\* is a prefix of s, or << >> when none is
FirstAlt(alts, s) ==
    LET hits == {i \in 1 .. Len(alts) : IsPrefix(alts[i], s)}
    IN  IF hits = {} THEN << >>
        ELSE alts[CHOOSE i \in hits : \A k \in hits : i <= k]

\* src/bot.py: (minute|minutes|day|days|week|weeks|month|months)
BotUnits ==
    <<Minute, Plural(Minute), Day, Plural(Day), Week, Plural(Week),
      Month, Plural(Month)>>

\* src/tg-bot/bot.py: (day|week|month|minute|hour)
TgUnits == <<Day, Week, Month, Minute, Hour>>

\* src/bot.py: re.match(r"(\d+)\s+(minute|...|months)", text, re.IGNORECASE),
\* then the unit, lowered, is looked up in four lists
parse_duration(text) ==
    LET d     == Run(text, DigitChars)
        rest  == Drop(text, d)
        sp    == Run(rest, SpaceChars)
        unit  == FirstAlt(BotUnits, LowerStr(Drop(rest, sp)))
        value == IntOf(SubSeq(text, 1, d))
    IN  IF d = 0 \/ sp = 0 \/ unit = << >> THEN NoSpan
        ELSE IF unit \in {Minute, Plural(Minute)} THEN Span(60 * value)
        ELSE IF unit \in {Day, Plural(Day)} THEN Span(86400 * value)
        ELSE IF unit \in {Week, Plural(Week)} THEN Span(7 * 86400 * value)
        ELSE IF unit \in {Month, Plural(Month)} THEN Span(30 * 86400 * value)
        ELSE NoSpan

\* src/tg-bot/bot.py: re.match(r"(\d+)\s*(day|week|month|minute|hour)s?",
\* duration_str.lower()), then the unit is recognised by containment
parse_duration_tg(duration_str) ==
    LET text   == LowerStr(duration_str)
        d      == Run(text, DigitChars)
        rest   == Drop(text, d)
        sp     == Run(rest, SpaceChars)
        unit   == FirstAlt(TgUnits, Drop(rest, sp))
        amount == IntOf(SubSeq(text, 1, d))
    IN  IF d = 0 \/ unit = << >> THEN NoSpan
        ELSE IF unit = Day THEN Span(86400 * amount)
        ELSE IF unit = Week THEN Span(7 * 86400 * amount)
        ELSE IF unit = Month THEN Span(30 * 86400 * amount)
        ELSE IF unit = Hour THEN Span(3600 * amount)
        ELSE IF unit = Minute THEN Span(60 * amount)
        ELSE NoSpan

\* The texts handed to the parser: lead, digits, gap, word, plural, tail.
Leads   == {<< >>, <<" ">>}
Amounts == {<< >>, <<"0">>, <<"2">>, <<"1", "0">>}
Gaps    == {<< >>, <<" ">>, <<" ", " ">>}
Words   == {Minute, Hour, Day, Week, Month, <<"D", "a", "y">>, <<"H", "o", "u", "r">>,
            <<"y", "e", "a", "r">>, << >>}
Plurals == {<< >>, <<"s">>}
Tails   == {<< >>, <<"x">>}

Parts == [lead : Leads, amount : Amounts, gap : Gaps, word : Words,
          plural : Plurals, tail : Tails]

TextOf(p) == p.lead \o p.amount \o p.gap \o p.word \o p.plural \o p.tail

NoParse == [pc |-> "none", parts |-> None, text |-> << >>, result |-> NoSpan]

ParseBot ==
    /\ impl = "bot"
    /\ pd.pc = "call"
    /\ pd' = [pd EXCEPT !.pc = "done", !.result = parse_duration(pd.text)]
    /\ UNCHANGED <<impl, gameVars, modVars>>

ParseTg ==
    /\ impl = "tg"
    /\ pd.pc = "call"
    /\ pd' = [pd EXCEPT !.pc = "done", !.result = parse_duration_tg(pd.text)]
    /\ UNCHANGED <<impl, gameVars, modVars>>

----------------------------------------------------------------------------
(* Initial state: every store is empty, no handler is in flight.           *)

NoLast ==
    [result |-> None, game_id |-> None, seat |-> 0, open |-> FALSE,
     distinct |-> FALSE, replay |-> FALSE, justMoved |-> FALSE,
     changed |-> FALSE, triple |-> FALSE, announced |-> FALSE,
     full |-> FALSE, player |-> FALSE, notice |-> None,
     by |-> None, versus |-> None]

NoRace == [on |-> FALSE, onTurn |-> None, other |-> None, game_id |-> None,
           pos |-> 0, seat |-> 0]

IdleCb == [pc |-> "idle", game_id |-> None, actor |-> None, pos |-> 0,
           result |-> None, late |-> FALSE]

InitGame ==
    /\ active_games = << >>
    /\ allocated = {}
    /\ cb = [h \in Slots |-> IdleCb]
    /\ race = NoRace
    /\ delivered = 0
    /\ last = NoLast
    /\ mover = [g \in LobbyIds |-> None]

----------------------------------------------------------------------------
(* tictactoe: the /tictactoe command (tg).  The opponent is resolved by    *)
(* get_chat_member or int(); opponent_id = None stands for the two except  *)
(* branches, which reply and return before a session is stored.  uuid4()   *)
(* yields an identifier that was never handed out; it is drawn only after   *)
(* the opponent is resolved.                                               *)

Resolved_any(opponent_id) == TRUE

\* neither except branch of the lookup was taken
Resolved(opponent_id) == opponent_id # None

Stored_as_only(games, game_id, game) == [g \in {game_id} |-> game]

\* active_games[game_id] = {...}
Stored_as(games, game_id, game) ==
    [g \in DOMAIN games \cup {game_id} |-> IF g = game_id THEN game ELSE games[g]]

tictactoe(user, opponent_id, chat_id, game_id) ==
    /\ impl = "tg"
    /\ IF ~Resolved(opponent_id)
       THEN /\ UNCHANGED <<active_games, allocated>>
            /\ last' = [NoLast EXCEPT !.result = "OpponentNotFound", !.by = user,
                                      !.notice = "reply"]
       ELSE \E games2 \in {Stored_as(active_games, game_id,
                                      NewGame(user, opponent_id, chat_id))} :
            /\ game_id \notin allocated
            /\ active_games' = games2
            /\ allocated' = allocated \cup {game_id}
            /\ last' = [NoLast EXCEPT !.result = "Started", !.game_id = game_id,
                                      !.by = user, !.versus = opponent_id,
                                      !.changed = games2 # active_games,
                                      !.notice = "reply"]
    /\ UNCHANGED <<impl, cb, race, delivered, mover, modVars, pd>>

----------------------------------------------------------------------------
(* button_handler handled in one piece: no other handler runs between its  *)
(* awaits.  A callback whose first await, query.answer(), raises ends      *)
(* before it reads the store and is not a step.  announced says whether    *)
(* the calls of the terminal announcement (get_chat_member and             *)
(* edit_message_text on a win, edit_message_text on a draw) return; when   *)
(* one raises, the handler ends before del active_games[game_id].          *)

InFlight(h) == cb[h].pc \in {"answer", "announce"}

Finish_drop(games, game_id, result, announced) == Remove(games, game_id)

Finish_keep(games, game_id, result, announced) == games

Finish(games, game_id, result, announced) ==
    IF result \in {"Won", "Drawn"} /\ announced
    THEN Remove(games, game_id)
    ELSE games

\* How the handler reports a result: query.answer(..., show_alert=True) is an
\* alert to the acting user, query.edit_message_text(...) rewrites the game
\* message that the whole chat sees.
Notice(result) ==
    IF result \in {"NotYourTurn", "CellOccupied"} THEN "alert" ELSE "edit"

Seen(game_id, actor, pos, r, games2, announced) ==
    LET found == game_id \in DOMAIN active_games
        game  == active_games[game_id]
    IN  [result    |-> r.result,
         game_id   |-> game_id,
         seat      |-> IF found THEN game.turn ELSE 0,
         open      |-> /\ found
                       /\ ~ThreeInLine(game.board)
                       /\ ~BoardFull(game.board),
         distinct  |-> found /\ game.players[0] # game.players[1],
         replay    |-> /\ found
                       /\ game.board[pos] # Empty
                       /\ game.players[SeatOf(game.board[pos])] = actor,
         justMoved |-> game_id \in DOMAIN mover /\ mover[game_id] = actor,
         changed   |-> games2 # active_games,
         triple    |-> /\ r.result \in Accepted
                       /\ ThreeInLine(r.games[game_id].board),
         announced |-> announced,
         full      |-> /\ r.result \in Accepted
                       /\ BoardFull(r.games[game_id].board),
         player    |-> found /\ actor \in {game.players[0], game.players[1]},
         notice    |-> Notice(r.result),
         by        |-> None,
         versus    |-> None]

\* lines 634-664 for a payload that was taken apart: everything the handler
\* does to the store
Placing(game_id, actor, pos, announced) ==
    /\ impl = "tg"
    /\ \A h \in Slots : ~InFlight(h)
    /\ \E r \in {apply_move(active_games, game_id, actor, pos)} :
         \E games2 \in {Finish(r.games, game_id, r.result, announced)} :
            /\ announced \/ r.result \in {"Won", "Drawn"}
            /\ active_games' = games2
            /\ last' = Seen(game_id, actor, pos, r, games2, announced)
            /\ mover' = IF r.result \in Accepted
                        THEN [mover EXCEPT ![game_id] = actor]
                        ELSE mover
    /\ UNCHANGED <<impl, allocated, cb, race, delivered, modVars>>

button_handler(game_id, actor, pos, announced) ==
    Placing(game_id, actor, pos, announced) /\ UNCHANGED pd

InitMod ==
    /\ group_states = << >>
    /\ group_warnings = << >>
    /\ group_automode = << >>
    /\ group_roles = << >>
    /\ wh = [h \in WSlots |-> IdleWarn]
    /\ lastw = NoLastW
    /\ tally = [t \in Targets |-> NoTally]

InitPlay == impl = "tg" /\ InitGame /\ InitMod /\ pd = NoParse

StartGame ==
    \E user \in Initiators, opponent_id \in Opponents \cup {None},
       chat_id \in Chats, game_id \in GameIds :
        tictactoe(user, opponent_id, chat_id, game_id)

Press ==
    \E game_id \in GameIds, actor \in Users, pos \in Cells, announced \in BOOLEAN :
        button_handler(game_id, actor, pos, announced)

NextPlay == StartGame \/ Press

SpecPlay == InitPlay /\ [][NextPlay]_vars

----------------------------------------------------------------------------
(* The callback payload (tg).  tictactoe puts f"ttt_{game_id}_{i}" on the  *)
(* button of cell i; button_handler takes data.split("_") apart into three *)
(* names and int()s the last.  Texts are sequences of characters.          *)

Decimals == <<"0", "1", "2", "3", "4", "5", "6", "7", "8", "9">>

\* str(i) of a cell index
StrOfCell(i) == <<Decimals[i + 1]>>

IsDecimal(f) ==
    f # << >> /\ \A k \in 1 .. Len(f) : \E d \in 1 .. Len(Decimals) : Decimals[d] = f[k]

\* int() of a text of decimal digits
RECURSIVE IntOfText(_)
IntOfText(f) ==
    IF f = << >> THEN 0
    ELSE 10 * IntOfText(SubSeq(f, 1, Len(f) - 1))
           + ((CHOOSE d \in 1 .. Len(Decimals) : Decimals[d] = f[Len(f)]) - 1)

\* int() of a text: decimal digits after an optional sign (the texts of the
\* model hold no blanks)
Signs == {"-", "+"}

IsInt(f) == IsDecimal(f) \/ (f # << >> /\ f[1] \in Signs /\ IsDecimal(Tail(f)))

IntOfSigned(f) ==
    IF f[1] = "-" THEN 0 - IntOfText(Tail(f))
    ELSE IF f[1] = "+" THEN IntOfText(Tail(f))
    ELSE IntOfText(f)

\* the characters of str(uuid4()): hexadecimal digits and hyphens
IdChars_any == {"a", "4", "-", "_"}

IdChars == {"a", "4", "-"}

\* the longest identifier of the inputs
MaxIdLen == 2

IdTexts == UNION {[1 .. n -> IdChars] : n \in 1 .. MaxIdLen}

Tag == <<"t", "t", "t">>

\* f"ttt_{game_id}_{i}"
Encode(game_id, i) == Tag \o <<"_">> \o game_id \o <<"_">> \o StrOfCell(i)

\* str.split(sep): the fields between the occurrences of sep
RECURSIVE Split(_, _)
Split(text, sep) ==
    IF \A k \in 1 .. Len(text) : text[k] # sep
    THEN <<text>>
    ELSE LET k == CHOOSE j \in 1 .. Len(text) :
                      text[j] = sep /\ \A h \in 1 .. j - 1 : text[h] # sep
         IN  <<SubSeq(text, 1, k - 1)>> \o Split(Drop(text, k), sep)

NoPayload == [ok |-> FALSE, fields |-> 0, tag |-> << >>, game_id |-> << >>, pos |-> 0]

\* lines 630-633: startswith("ttt_"), the unpacking of the split into three
\* names (ValueError otherwise) and int(pos) (ValueError when not a number)
Decode(data) ==
    IF ~IsPrefix(Tag \o <<"_">>, data)
    THEN NoPayload
    ELSE LET f == Split(data, "_") IN
         IF Len(f) # 3 \/ ~IsInt(f[3])
         THEN [NoPayload EXCEPT !.fields = Len(f)]
         ELSE [ok |-> TRUE, fields |-> 3, tag |-> f[1], game_id |-> f[2],
               pos |-> IntOfSigned(f[3])]

\* tictactoe builds the button of one cell
Emit ==
    /\ impl = "tg"
    /\ pd.pc = "button"
    /\ pd' = [pd EXCEPT !.pc = "sent", !.text = Encode(pd.parts.game_id, pd.parts.cell)]
    /\ UNCHANGED <<impl, gameVars, modVars>>

\* the platform hands the payload of the pressed button back to button_handler
Pressed ==
    /\ impl = "tg"
    /\ pd.pc = "sent"
    /\ pd' = [pd EXCEPT !.pc = "decoded", !.result = Decode(pd.text)]
    /\ UNCHANGED <<impl, gameVars, modVars>>

InitPayload ==
    /\ impl = "tg"
    /\ InitGame
    /\ InitMod
    /\ \E id \in IdTexts, i \in Cells :
         pd = [pc |-> "button", parts |-> [game_id |-> id, cell |-> i],
               text |-> << >>, result |-> NoPayload]

NextPayload == Emit \/ Pressed

SpecPayload == InitPayload /\ [][NextPayload]_vars

----------------------------------------------------------------------------
(* SpecCallback: button_handler from the text of the payload on.  Any text *)
(* can arrive as callback data: the buttons of the game message, and texts *)
(* a client makes up.                                                      *)

\* str(uuid4()) of the sessions of the model
Uuid(game_id) == IF game_id = "g1" THEN <<"a", "4">> ELSE <<"4", "-">>

\* the key that `game_id not in active_games` looks up
Known(text) ==
    IF \E g \in LobbyIds : Uuid(g) = text
    THEN CHOOSE g \in LobbyIds : Uuid(g) = text
    ELSE None

\* game["board"][pos] of a list of nine: 0..8 from the front, -1..-9 from the
\* back, IndexError outside
InRange(pos) == pos \in -9 .. 8

Index(pos) == IF pos < 0 THEN pos + 9 ELSE pos

NoCallback == [pc |-> "none", text |-> << >>, result |-> NoPayload, raised |-> None]

\* ghost: the callback that ended, with the exception that left the handler
Callback_of(data, d, raised) ==
    [pc |-> "callback", text |-> data, result |-> d, raised |-> raised]

\* lines 627-664 on the text of the payload.  A text without the prefix is
\* not for this handler; the unpacking and int() of lines 631-632 raise
\* ValueError; the read of game["board"][pos] of line 641, reached when the
\* game is stored and the presser is on turn, raises IndexError.
callback_query(data, actor, announced) ==
    \E d \in {Decode(data)} :
        IF ~d.ok
        THEN /\ impl = "tg"
             /\ pd' = Callback_of(data, d, IF d.fields = 0 THEN None ELSE "ValueError")
             /\ last' = [NoLast EXCEPT !.result = IF d.fields = 0 THEN "Ignored"
                                                  ELSE "Raised"]
             /\ UNCHANGED <<impl, active_games, allocated, cb, race, delivered,
                            mover, modVars>>
        ELSE \E game_id \in {Known(d.game_id)} :
             IF /\ game_id \in DOMAIN active_games
                /\ TurnOk(active_games[game_id], actor)
                /\ ~InRange(d.pos)
             THEN /\ impl = "tg"
                  /\ pd' = Callback_of(data, d, "IndexError")
                  /\ last' = [NoLast EXCEPT !.result = "Raised", !.game_id = game_id]
                  /\ UNCHANGED <<impl, active_games, allocated, cb, race, delivered,
                                 mover, modVars>>
             ELSE /\ Placing(game_id, actor,
                             IF InRange(d.pos) THEN Index(d.pos) ELSE 0, announced)
                  /\ pd' = Callback_of(data, d, None)

\* the texts that arrive: buttons of a game (a row, and the cells the
\* negative numbers reach), and texts with a field
\* too few or too many, with a cell that is no number, or with a number that
\* is no cell
Crafted ==
    {<<"a", "b", "c">>,
     Tag \o <<"_">> \o Uuid("g1"),
     Encode(Uuid("g1"), 1) \o <<"_", "2">>,
     Tag \o <<"_">> \o Uuid("g1") \o <<"_">>,
     Tag \o <<"_">> \o Uuid("g1") \o <<"_", "a">>,
     Tag \o <<"_">> \o Uuid("g1") \o <<"_", "-", "1">>,
     Tag \o <<"_">> \o Uuid("g1") \o <<"_", "-", "9">>,
     Tag \o <<"_">> \o Uuid("g1") \o <<"_", "-", "1", "0">>,
     Tag \o <<"_">> \o Uuid("g1") \o <<"_", "9">>,
     Tag \o <<"_">> \o Uuid("g2") \o <<"_", "9">>,
     Tag \o <<"_", "_", "1">>}

Buttons == {Encode(Uuid("g1"), i) : i \in {0, 1, 2, 3, 8}}

CbStart ==
    \E user \in Initiators, opponent_id \in Opponents \ Initiators, chat_id \in Chats :
        tictactoe(user, opponent_id, chat_id, "g1")

CbPress ==
    \E data \in Buttons \cup Crafted, actor \in Opponents :
        callback_query(data, actor, TRUE)

InitCallback == impl = "tg" /\ InitGame /\ InitMod /\ pd = NoCallback

NextCallback == CbStart \/ CbPress

SpecCallback == InitCallback /\ [][NextCallback]_vars

----------------------------------------------------------------------------
(* SpecFinish: one session played to its end.  The player on turn presses  *)
(* an empty cell (any of them); other presses are refused; every external  *)
(* call goes through.  pd counts the presses that were accepted.  The      *)
(* player on turn keeps pressing: weak fairness of ValidMove.              *)

NoMoves == [pc |-> "moves", n |-> [g \in GameIds |-> 0]]

\* ghost: one more accepted press of a game
Counted(p, game_id, result) ==
    IF result \in Accepted THEN [p EXCEPT !.n[game_id] = @ + 1] ELSE p

ValidMove(game_id) ==
    /\ game_id \in DOMAIN active_games
    /\ \E pos \in Cells :
         /\ active_games[game_id].board[pos] = Empty
         /\ Placing(game_id, active_games[game_id].players[active_games[game_id].turn],
                    pos, TRUE)
         /\ pd' = Counted(pd, game_id, last'.result)

\* presses of the corners and of the centre that are turned away
Refused ==
    \E game_id \in GameIds, actor \in Opponents, pos \in {0, 4, 8} :
        /\ apply_move(active_games, game_id, actor, pos).result \in Rejected
        /\ Placing(game_id, actor, pos, TRUE)
        /\ pd' = Counted(pd, game_id, last'.result)

InitFinish == impl = "tg" /\ InitGame /\ InitMod /\ pd = NoMoves

NextFinish == StartGame \/ Refused \/ \E game_id \in GameIds : ValidMove(game_id)

SpecFinish ==
    /\ InitFinish
    /\ [][NextFinish]_vars
    /\ \A game_id \in GameIds : WF_vars(ValidMove(game_id))

----------------------------------------------------------------------------
(* SpecLobby: two game identifiers, so that several sessions (of the same  *)
(* pair) are open at once; the presses go to the first five cells,         *)
(* which hold a winning line and two cells for the other player.           *)

LobbyCells == {c \in Cells : c < 5}

LobbyStart ==
    \E user \in Initiators, opponent_id \in (Opponents \ Initiators) \cup {None},
       chat_id \in Chats, game_id \in LobbyIds :
        tictactoe(user, opponent_id, chat_id, game_id)

\* the two players press; the announcement of a win goes through
LobbyPress ==
    \E game_id \in LobbyIds, actor \in Opponents, pos \in LobbyCells :
        button_handler(game_id, actor, pos, TRUE)

NextLobby == LobbyStart \/ LobbyPress

SpecLobby == InitPlay /\ [][NextLobby]_vars

----------------------------------------------------------------------------
(* button_handler step by step (SpecGame).  A callback is suspended at     *)
(* "answer" (await query.answer(), line 629) before it has read anything;  *)
(* Resume runs lines 630-664 in one piece; on a win or a draw the handler  *)
(* is then suspended at "announce" (the awaits of lines 656-657 or 661)    *)
(* and only afterwards deletes the session.  After the other outcomes the  *)
(* handler touches no shared state any more and is "done".                 *)

OtherSlot(h) == CHOOSE k \in Slots : k # h

\* Two callbacks suspended at "answer" for the same empty cell of a stored
\* game, one from each of two distinct players, nothing else in flight.
Racing(slots, h, k) ==
    /\ h # k
    /\ slots[h].pc = "answer" /\ slots[k].pc = "answer"
    /\ \A j \in Slots \ {h, k} : slots[j].pc \notin {"answer", "announce"}
    /\ slots[h].game_id = slots[k].game_id
    /\ slots[h].pos = slots[k].pos
    /\ slots[h].game_id \in DOMAIN active_games
    /\ LET game == active_games[slots[h].game_id] IN
         /\ game.players[0] # game.players[1]
         /\ {slots[h].actor, slots[k].actor} = {game.players[0], game.players[1]}
         /\ game.board[slots[h].pos] = Empty

Deliver(h, game_id, actor, pos) ==
    /\ impl = "tg"
    /\ ~InFlight(h)
    /\ delivered < MaxCallbacks
    /\ delivered' = delivered + 1
    /\ cb' = [cb EXCEPT ![h] = [pc |-> "answer", game_id |-> game_id, actor |-> actor,
                                pos |-> pos, result |-> None, late |-> FALSE]]
    /\ race' = IF \E k \in Slots : Racing(cb', h, k)
               THEN LET k    == CHOOSE j \in Slots : Racing(cb', h, j)
                        game == active_games[game_id]
                        mine == actor = game.players[game.turn]
                    IN  [on |-> TRUE, game_id |-> game_id, pos |-> pos, seat |-> game.turn,
                         onTurn |-> IF mine THEN h ELSE k,
                         other  |-> IF mine THEN k ELSE h]
               ELSE IF h \in {race.onTurn, race.other} THEN NoRace ELSE race
    /\ UNCHANGED <<impl, active_games, allocated, last, mover, modVars, pd>>

\* The session is found although its board already holds a winning triple.
LateFor(game_id) ==
    /\ game_id \in DOMAIN active_games
    /\ ThreeInLine(active_games[game_id].board)

\* query.answer() raises: the handler ends at line 629.
AnswerRaises(h) ==
    /\ cb[h].pc = "answer"
    /\ cb' = [cb EXCEPT ![h] = [IdleCb EXCEPT !.pc = "done", !.result = "Raised"]]
    /\ UNCHANGED <<impl, active_games, allocated, race, delivered, last, mover, modVars, pd>>

\* lines 630-664
Resume(h) ==
    /\ cb[h].pc = "answer"
    /\ \E r \in {apply_move(active_games, cb[h].game_id, cb[h].actor, cb[h].pos)} :
         /\ active_games' = r.games
         /\ cb' = [cb EXCEPT ![h] =
                     IF r.result \in {"Won", "Drawn"}
                     THEN [cb[h] EXCEPT !.pc = "announce", !.result = r.result,
                                        !.late = LateFor(cb[h].game_id)]
                     ELSE [IdleCb EXCEPT !.pc = "done", !.result = r.result,
                                         !.late = LateFor(cb[h].game_id)]]
         /\ mover' = IF r.result \in Accepted
                     THEN [mover EXCEPT ![cb[h].game_id] = cb[h].actor]
                     ELSE mover
    /\ UNCHANGED <<impl, allocated, race, delivered, last, modVars, pd>>

\* lines 656-658 and 661-662: the announcement returns and the session is
\* deleted, or a call raises and the handler ends before the del.  A del of a
\* session that is no longer stored raises KeyError.
Announce(h, announced) ==
    /\ cb[h].pc = "announce"
    /\ IF announced /\ cb[h].game_id \in DOMAIN active_games
       THEN active_games' = Remove(active_games, cb[h].game_id)
       ELSE UNCHANGED active_games
    /\ cb' = [cb EXCEPT ![h] =
                [IdleCb EXCEPT !.pc = "done", !.late = cb[h].late,
                               !.result = IF announced /\ cb[h].game_id \notin DOMAIN active_games
                                          THEN "KeyError" ELSE cb[h].result]]
    /\ UNCHANGED <<impl, allocated, race, delivered, last, mover, modVars, pd>>

\* Callbacks handled without interleaving, used to bring a game forward: the
\* player on turn presses the lowest free cell and the announcement succeeds.
Lead ==
    \E game_id \in DOMAIN active_games :
        LET game == active_games[game_id]
            free == {c \in Cells : game.board[c] = Empty}
        IN  /\ free # {}
            /\ button_handler(game_id, game.players[game.turn],
                              CHOOSE c \in free : \A d \in free : c <= d, TRUE)

Callback ==
    \E h \in Slots, game_id \in GameIds, actor \in Opponents, pos \in Cells :
        Deliver(h, game_id, actor, pos)

Step ==
    \E h \in Slots :
        \/ AnswerRaises(h)
        \/ Resume(h)
        \/ \E announced \in BOOLEAN : Announce(h, announced)

Challenge ==
    \E user \in Initiators, opponent_id \in (Opponents \ Initiators) \cup {None},
       chat_id \in Chats, game_id \in GameIds :
        tictactoe(user, opponent_id, chat_id, game_id)

NextGame == Challenge \/ Lead \/ Callback \/ Step

SpecGame == InitPlay /\ [][NextGame]_vars

----------------------------------------------------------------------------
(* src/bot.py: the moderation commands handled in one piece (SpecMod).     *)
(* admins is what is_admin is told; target is the user get_target_user     *)
(* resolves, or None; ext names the external call of the handler that      *)
(* raises ("ok": none does).                                               *)

Bump(t, field) == [t EXCEPT ![field] = @ + 1]

\* the ghost tally of one warn call that passed the gate
Tallied(t, pre, warnings, banReq, banOK, reset) ==
    [streak    |-> IF reset THEN 0 ELSE t.streak + 1,
     calls     |-> t.calls + 1,
     bans      |-> t.bans + (IF banReq THEN 1 ELSE 0),
     banned    |-> t.banned + (IF banOK THEN 1 ELSE 0),
     crossings |-> t.crossings + (IF pre < 3 /\ warnings >= 3 THEN 1 ELSE 0),
     soft      |-> t.soft]

\* ghost: the count stands at 3 or more and got there under a mode that is
\* not strict
Soft(was, warnings, automode, reset) ==
    ~reset /\ (was \/ (warnings >= 3 /\ automode # "strict"))

\* ghost: a command that ended before its work; why is "gate" (the invoker
\* was refused), "usage" (no argument, no target) or "invalid" (a bad value)
Denied(op, admin, why) ==
    [NoLastW EXCEPT !.op = op, !.admin = admin, !.why = why,
                    !.before = lastw.before \/ why # "gate"]

\* ghost: a command that did its work
Done(op, admin, target, changed) ==
    [NoLastW EXCEPT !.op = op, !.admin = admin, !.target = target,
                    !.changed = changed, !.before = TRUE]

\* ghost: the invoker is in the list of administrators the platform reports
Reported(user_id, admins) == admins.ok /\ user_id \in admins.ids

RECURSIVE CallsOf(_)
CallsOf(ts) ==
    IF ts = {} THEN 0
    ELSE LET t == CHOOSE x \in ts : TRUE IN tally[t].calls + CallsOf(ts \ {t})

\* the model stops warning after MaxWarnCalls calls that passed the gate
MayWarn == CallsOf(Targets) < MaxWarnCalls

warn_user(chat_id, user_id, admins, target, ext) ==
    /\ impl = "bot"
    /\ IF ~is_admin(user_id, admins)
       THEN /\ lastw' = Denied("warn_denied", Reported(user_id, admins), "gate")
            /\ UNCHANGED <<group_states, tally>>
       ELSE IF target = None
       THEN /\ lastw' = Denied("warn_denied", Reported(user_id, admins), "usage")
            /\ UNCHANGED <<group_states, tally>>
       ELSE LET pre      == CountIn(group_states, chat_id, target)
                s1       == warn_count(group_states, chat_id, target)
                warnings == CountIn(s1, chat_id, target)
                automode == s1[chat_id].automode
                notified == ext # "reply546"
                banReq   == notified /\ Escalates(warnings, automode) /\ ext # "reply549"
                banOK    == banReq /\ ext # "ban552"
                s2       == IF banOK THEN warn_reset(s1, chat_id, target) ELSE s1
            IN  /\ MayWarn
                /\ group_states' = s2
                /\ tally' = [tally EXCEPT ![target] =
                               [Tallied(@, pre, warnings, banReq, banOK, banOK)
                                  EXCEPT !.soft = Soft(@, warnings, automode, banOK)]]
                /\ lastw' = [Done("warn", Reported(user_id, admins), target,
                                  s2 # group_states)
                               EXCEPT !.pre = pre, !.reported = warnings,
                                      !.mode = automode, !.notified = notified,
                                      !.banReq = IF banReq THEN 1 ELSE 0,
                                      !.banOK = banOK,
                                      !.error = banReq /\ ~banOK,
                                      !.soft = tally[target].soft,
                                      !.after = CountIn(s2, chat_id, target)]
    /\ UNCHANGED <<impl, gameVars, pd, group_roles, group_warnings, group_automode, wh>>

\* lines 389-394 of ban_user: the ban, the notice, and the report of a failure
ban_user(chat_id, user_id, admins, target, ext) ==
    /\ impl = "bot"
    /\ lastw' =
         IF ~is_admin(user_id, admins)
         THEN Denied("ban_denied", Reported(user_id, admins), "gate")
         ELSE IF target = None
         THEN Denied("ban_denied", Reported(user_id, admins), "usage")
         ELSE [Done("ban", Reported(user_id, admins), target, FALSE)
                 EXCEPT !.banReq = 1, !.banOK = ext # "ban390",
                        !.notified = ext = "ok", !.error = ext # "ok"]
    /\ UNCHANGED <<impl, gameVars, pd, group_roles, group_states, group_warnings, group_automode,
                   wh, tally>>

Cleared_all(states, chat_id, target) ==
    [states EXCEPT ![chat_id].warnings = [u \in DOMAIN @ |-> 0]]

\* lines 572-573: if target_id_str in group["warnings"]: ... = 0
Cleared(states, chat_id, target) ==
    IF target \in DOMAIN states[chat_id].warnings
    THEN SetCount(states, chat_id, target, 0)
    ELSE states

remove_warnings(chat_id, user_id, admins, target) ==
    /\ impl = "bot"
    /\ IF ~is_admin(user_id, admins)
       THEN /\ lastw' = Denied("clear_denied", Reported(user_id, admins), "gate")
            /\ UNCHANGED <<group_states, tally>>
       ELSE IF target = None
       THEN /\ lastw' = Denied("clear_denied", Reported(user_id, admins), "usage")
            /\ UNCHANGED <<group_states, tally>>
       ELSE LET s1 == Cleared(get_group_state(group_states, chat_id), chat_id, target) IN
            /\ group_states' = s1
            /\ tally' = [tally EXCEPT ![target].streak = 0, ![target].soft = FALSE]
            /\ lastw' = [Done("clear", Reported(user_id, admins), target,
                              s1 # group_states)
                           EXCEPT !.pre = CountIn(group_states, chat_id, target),
                                  !.after = CountIn(s1, chat_id, target),
                                  !.notified = TRUE,
                                  !.others = \A t \in Targets \ {target} :
                                      CountIn(s1, chat_id, t)
                                          = CountIn(group_states, chat_id, t),
                                  !.repeat = lastw.op = "clear" /\ lastw.target = target]
    /\ UNCHANGED <<impl, gameVars, pd, group_roles, group_warnings, group_automode, wh>>

set_auto_mode(chat_id, user_id, admins, arg) ==
    /\ impl = "bot"
    /\ IF ~is_admin(user_id, admins)
       THEN /\ lastw' = Denied("mode_denied", Reported(user_id, admins), "gate")
            /\ UNCHANGED group_states
       ELSE IF arg = None
       THEN /\ lastw' = Denied("mode_denied", Reported(user_id, admins), "usage")
            /\ UNCHANGED group_states
       ELSE IF Lower(arg) \notin Modes
       THEN /\ lastw' = [Denied("mode_denied", Reported(user_id, admins), "invalid")
                           EXCEPT !.arg = arg, !.notified = TRUE]
            /\ UNCHANGED group_states
       ELSE LET s1 == [get_group_state(group_states, chat_id)
                          EXCEPT ![chat_id].automode = Lower(arg)] IN
            /\ group_states' = s1
            /\ lastw' = [Done("mode", Reported(user_id, admins), None,
                              s1 # group_states)
                           EXCEPT !.arg = arg]
    /\ UNCHANGED <<impl, gameVars, pd, group_roles, group_warnings, group_automode, wh, tally>>

remove_auto_mode(chat_id, user_id, admins) ==
    /\ impl = "bot"
    /\ IF ~is_admin(user_id, admins)
       THEN /\ lastw' = Denied("unmode_denied", Reported(user_id, admins), "gate")
            /\ UNCHANGED group_states
       ELSE LET s1 == [get_group_state(group_states, chat_id)
                          EXCEPT ![chat_id].automode = "normal"] IN
            /\ group_states' = s1
            /\ lastw' = Done("unmode", Reported(user_id, admins), None,
                             s1 # group_states)
    /\ UNCHANGED <<impl, gameVars, pd, group_roles, group_warnings, group_automode, wh, tally>>

Assigned_first(roles, target, role_name) ==
    [u \in DOMAIN roles \cup {target} |-> IF u \in DOMAIN roles THEN roles[u] ELSE role_name]

\* roles[target] = role: the entry is written whether or not one exists
Assigned(roles, target, role_name) ==
    [u \in DOMAIN roles \cup {target} |-> IF u = target THEN role_name ELSE roles[u]]

\* del roles[target]
Unassigned(roles, target) == [u \in DOMAIN roles \ {target} |-> roles[u]]

\* set_role: get_target_user gives the subject and the rest of the arguments,
\* the role name (None when there is none).
set_role(chat_id, user_id, admins, target, role_name) ==
    /\ impl = "bot"
    /\ IF ~is_admin(user_id, admins)
       THEN /\ lastw' = Denied("role_denied", Reported(user_id, admins), "gate")
            /\ UNCHANGED group_states
       ELSE IF target = None \/ role_name = None
       THEN /\ lastw' = Denied("role_denied", Reported(user_id, admins), "usage")
            /\ UNCHANGED group_states
       ELSE LET s0 == get_group_state(group_states, chat_id)
                s1 == [s0 EXCEPT ![chat_id].roles = Assigned(@, target, role_name)]
            IN  /\ group_states' = s1
                /\ lastw' = [Done("role", Reported(user_id, admins), target,
                                  s1 # group_states)
                               EXCEPT !.arg = role_name,
                                      !.repeat = target \in DOMAIN s0[chat_id].roles]
    /\ UNCHANGED <<impl, gameVars, pd, group_roles, group_warnings, group_automode, wh,
                   tally>>

remove_role(chat_id, user_id, admins, target) ==
    /\ impl = "bot"
    /\ IF ~is_admin(user_id, admins)
       THEN /\ lastw' = Denied("unrole_denied", Reported(user_id, admins), "gate")
            /\ UNCHANGED group_states
       ELSE IF target = None
       THEN /\ lastw' = Denied("unrole_denied", Reported(user_id, admins), "usage")
            /\ UNCHANGED group_states
       ELSE LET s0 == get_group_state(group_states, chat_id)
                s1 == IF target \in DOMAIN s0[chat_id].roles
                      THEN [s0 EXCEPT ![chat_id].roles = Unassigned(@, target)]
                      ELSE s0
            IN  /\ group_states' = s1
                /\ lastw' = Done("unrole", Reported(user_id, admins), target,
                                 s1 # group_states)
    /\ UNCHANGED <<impl, gameVars, pd, group_roles, group_warnings, group_automode, wh,
                   tally>>

\* leaving_handler: the group record is fetched (and created); when the member
\* that left is the bot itself, the whole record of the chat is deleted.
leaving_handler(chat_id, bot_left) ==
    /\ impl = "bot"
    /\ LET s1 == get_group_state(group_states, chat_id) IN
         IF bot_left
         THEN /\ group_states' = [c \in DOMAIN s1 \ {chat_id} |-> s1[c]]
              /\ tally' = [t \in Targets |->
                              [tally[t] EXCEPT !.streak = 0, !.soft = FALSE]]
         ELSE /\ group_states' = s1
              /\ UNCHANGED tally
    /\ lastw' = [NoLastW EXCEPT !.op = "left", !.before = lastw.before,
                                !.why = IF bot_left THEN "bot" ELSE None]
    /\ UNCHANGED <<impl, gameVars, pd, group_roles, group_warnings, group_automode, wh>>

----------------------------------------------------------------------------
(* src/tg-bot/bot.py: the moderation commands handled in one piece.        *)

\* is_admin of src/tg-bot/bot.py
is_admin_tg(chat_id, member) ==
    IF chat_id > 0 THEN TRUE ELSE member \in {"administrator", "creator"}

\* if chat_id > 0 or not is_admin(...): return
Gated(chat_id, member) == chat_id > 0 \/ ~is_admin_tg(chat_id, member)

\* ghost: the platform reports the invoker as administrator or creator of
\* the group
ReportedTg(chat_id, member) == chat_id < 0 /\ member \in {"administrator", "creator"}

\* the list of reasons of a user, [] when there is none
ReasonsIn(lists, chat_id, user_id) ==
    IF chat_id \in DOMAIN lists /\ user_id \in DOMAIN lists[chat_id]
    THEN lists[chat_id][user_id]
    ELSE << >>

\* lines 396-400: setdefault of both levels and append
Appended(lists, chat_id, user_id, reason) ==
    [c \in DOMAIN lists \cup {chat_id} |->
        IF c # chat_id THEN lists[c]
        ELSE [u \in (IF c \in DOMAIN lists THEN DOMAIN lists[c] ELSE {}) \cup {user_id} |->
                 IF u = user_id
                 THEN Append(ReasonsIn(lists, chat_id, user_id), reason)
                 ELSE lists[c][u]]]

\* group_automode holds no default: the mode of a chat that never set one
AutoModeTg(chat_id) ==
    IF chat_id \in DOMAIN group_automode THEN group_automode[chat_id] ELSE "unset"

\* line 403: if count >= 3
EscalatesTg(count) == count >= 3

warning(chat_id, member, user_id, reason, ext) ==
    /\ impl = "tg"
    /\ IF Gated(chat_id, member)
       THEN /\ lastw' = Denied("warn_denied", ReportedTg(chat_id, member), "gate")
            /\ UNCHANGED <<group_warnings, tally>>
       ELSE IF user_id = None
       THEN /\ lastw' = Denied("warn_denied", ReportedTg(chat_id, member), "usage")
            /\ UNCHANGED <<group_warnings, tally>>
       ELSE LET pre      == Len(ReasonsIn(group_warnings, chat_id, user_id))
                lists    == Appended(group_warnings, chat_id, user_id, reason)
                count    == Len(lists[chat_id][user_id])
                notified == ext # "reply402"
                banReq   == notified /\ EscalatesTg(count)
                banOK    == banReq /\ ext # "ban406"
            IN  /\ MayWarn
                /\ group_warnings' = lists
                /\ tally' = [tally EXCEPT ![user_id] =
                               Tallied(@, pre, count, banReq, banOK, FALSE)]
                /\ lastw' = [Done("warn", ReportedTg(chat_id, member), user_id, TRUE)
                               EXCEPT !.pre = pre, !.reported = count,
                                      !.mode = AutoModeTg(chat_id),
                                      !.notified = notified,
                                      !.banReq = IF banReq THEN 1 ELSE 0,
                                      !.banOK = banOK,
                                      !.after = count]
    /\ UNCHANGED <<impl, gameVars, pd, group_roles, group_states, group_automode, wh>>

\* lines 236-240 of ban: the ban, the notice, and the report of a failure
ban(chat_id, member, user_id, ext) ==
    /\ impl = "tg"
    /\ lastw' =
         IF Gated(chat_id, member)
         THEN Denied("ban_denied", ReportedTg(chat_id, member), "gate")
         ELSE IF user_id = None
         THEN Denied("ban_denied", ReportedTg(chat_id, member), "usage")
         ELSE [Done("ban", ReportedTg(chat_id, member), user_id, FALSE)
                 EXCEPT !.banReq = 1, !.banOK = ext # "ban237",
                        !.notified = ext = "ok", !.error = ext # "ok"]
    /\ UNCHANGED <<impl, gameVars, pd, group_roles, group_states, group_warnings, group_automode,
                   wh, tally>>

removewarnings(chat_id, member, user_id) ==
    /\ impl = "tg"
    /\ IF Gated(chat_id, member)
       THEN /\ lastw' = Denied("clear_denied", ReportedTg(chat_id, member), "gate")
            /\ UNCHANGED <<group_warnings, tally>>
       ELSE IF user_id = None
       THEN /\ lastw' = Denied("clear_denied", ReportedTg(chat_id, member), "usage")
            /\ UNCHANGED <<group_warnings, tally>>
       ELSE LET lists ==
                   IF chat_id \in DOMAIN group_warnings
                      /\ user_id \in DOMAIN group_warnings[chat_id]
                   THEN [group_warnings EXCEPT ![chat_id] =
                            [u \in DOMAIN @ \ {user_id} |-> @[u]]]
                   ELSE group_warnings
            IN
            /\ group_warnings' = lists
            /\ tally' = [tally EXCEPT ![user_id].streak = 0]
            /\ lastw' = [Done("clear", ReportedTg(chat_id, member), user_id,
                              lists # group_warnings)
                           EXCEPT !.pre = Len(ReasonsIn(group_warnings, chat_id, user_id)),
                                  !.after = Len(ReasonsIn(lists, chat_id, user_id)),
                                  !.notified = TRUE,
                                  !.others = \A t \in Targets \ {user_id} :
                                      ReasonsIn(lists, chat_id, t)
                                          = ReasonsIn(group_warnings, chat_id, t),
                                  !.repeat = lastw.op = "clear" /\ lastw.target = user_id]
    /\ UNCHANGED <<impl, gameVars, pd, group_roles, group_states, group_automode, wh>>

setautomode(chat_id, member, arg) ==
    /\ impl = "tg"
    /\ IF Gated(chat_id, member)
       THEN /\ lastw' = Denied("mode_denied", ReportedTg(chat_id, member), "gate")
            /\ UNCHANGED group_automode
       ELSE IF arg = None
       THEN /\ lastw' = Denied("mode_denied", ReportedTg(chat_id, member), "usage")
            /\ UNCHANGED group_automode
       ELSE IF Lower(arg) \notin Modes
       THEN /\ lastw' = [Denied("mode_denied", ReportedTg(chat_id, member), "invalid")
                           EXCEPT !.arg = arg, !.notified = TRUE]
            /\ UNCHANGED group_automode
       ELSE LET modes == [c \in DOMAIN group_automode \cup {chat_id} |->
                            IF c = chat_id THEN Lower(arg) ELSE group_automode[c]] IN
            /\ group_automode' = modes
            /\ lastw' = [Done("mode", ReportedTg(chat_id, member), None,
                              modes # group_automode)
                           EXCEPT !.arg = arg]
    /\ UNCHANGED <<impl, gameVars, pd, group_roles, group_states, group_warnings, wh, tally>>

removeautomode(chat_id, member) ==
    /\ impl = "tg"
    /\ IF Gated(chat_id, member)
       THEN /\ lastw' = Denied("unmode_denied", ReportedTg(chat_id, member), "gate")
            /\ UNCHANGED group_automode
       ELSE LET modes == [c \in DOMAIN group_automode \ {chat_id} |-> group_automode[c]] IN
            /\ group_automode' = modes
            /\ lastw' = Done("unmode", ReportedTg(chat_id, member), None,
                             modes # group_automode)
    /\ UNCHANGED <<impl, gameVars, pd, group_roles, group_states, group_warnings, wh, tally>>

\* the roles of a chat, {} when it has none
RolesIn(store, chat_id) == IF chat_id \in DOMAIN store THEN store[chat_id] ELSE << >>

\* role: user_id = None stands for the two except branches of the lookup,
\* role_name = None for fewer than two arguments.
role(chat_id, member, user_id, role_name) ==
    /\ impl = "tg"
    /\ IF Gated(chat_id, member)
       THEN /\ lastw' = Denied("role_denied", ReportedTg(chat_id, member), "gate")
            /\ UNCHANGED group_roles
       ELSE IF role_name = None
       THEN /\ lastw' = Denied("role_denied", ReportedTg(chat_id, member), "usage")
            /\ UNCHANGED group_roles
       ELSE IF user_id = None
       THEN /\ lastw' = Denied("role_denied", ReportedTg(chat_id, member), "invalid")
            /\ UNCHANGED group_roles
       ELSE LET store == [c \in DOMAIN group_roles \cup {chat_id} |->
                            IF c = chat_id
                            THEN Assigned(RolesIn(group_roles, c), user_id, role_name)
                            ELSE group_roles[c]]
            IN  /\ group_roles' = store
                /\ lastw' = [Done("role", ReportedTg(chat_id, member), user_id,
                                  store # group_roles)
                               EXCEPT !.arg = role_name,
                                      !.repeat = user_id \in DOMAIN RolesIn(group_roles,
                                                                           chat_id)]
    /\ UNCHANGED <<impl, gameVars, pd, group_states, group_warnings, group_automode,
                   wh, tally>>

\* removerole: user_id = None stands for no argument and for a failed lookup
removerole(chat_id, member, user_id) ==
    /\ impl = "tg"
    /\ IF Gated(chat_id, member)
       THEN /\ lastw' = Denied("unrole_denied", ReportedTg(chat_id, member), "gate")
            /\ UNCHANGED group_roles
       ELSE IF user_id = None
       THEN /\ lastw' = Denied("unrole_denied", ReportedTg(chat_id, member), "usage")
            /\ UNCHANGED group_roles
       ELSE LET store == IF user_id \in DOMAIN RolesIn(group_roles, chat_id)
                         THEN [group_roles EXCEPT ![chat_id] = Unassigned(@, user_id)]
                         ELSE group_roles
            IN  /\ group_roles' = store
                /\ lastw' = Done("unrole", ReportedTg(chat_id, member), user_id,
                                 store # group_roles)
    /\ UNCHANGED <<impl, gameVars, pd, group_states, group_warnings, group_automode,
                   wh, tally>>

\* member_handler of src/tg-bot/bot.py: a greeting or a farewell is sent when
\* the group has its admin mode on (enabled) and the status of a member
\* changed to joined or left; no store is written.
member_handler(chat_id, enabled, status) ==
    /\ impl = "tg"
    /\ lastw' = [NoLastW EXCEPT !.op = "left", !.before = lastw.before,
                                !.notified = chat_id < 0 /\ enabled
                                             /\ status \in {"joined", "left"}]
    /\ UNCHANGED <<impl, gameVars, pd, group_roles, group_states, group_warnings, group_automode,
                   wh, tally>>

----------------------------------------------------------------------------
(* SpecMod: either program, its moderation commands one at a time.         *)

InitProgram == impl \in {"bot", "tg"} /\ InitGame /\ InitMod /\ pd = NoParse

\* A command that is refused at its gate reads none of its further inputs:
\* one value stands for all of them.
ReadIf(passes, S) == IF passes THEN S ELSE {CHOOSE x \in S : TRUE}

BotWarn ==
    \E user_id \in Invokers, admins \in AdminReports :
        \E target \in ReadIf(is_admin(user_id, admins), Targets \cup {None}),
           ext \in ReadIf(is_admin(user_id, admins),
                          {"ok", "reply546", "reply549", "ban552"}) :
            warn_user(Group, user_id, admins, target, ext)

BotBan ==
    \E user_id \in Invokers, admins \in AdminReports :
        \E target \in ReadIf(is_admin(user_id, admins), Targets \cup {None}),
           ext \in ReadIf(is_admin(user_id, admins), {"ok", "ban390", "reply392"}) :
            ban_user(Group, user_id, admins, target, ext)

BotClear ==
    \E user_id \in Invokers, admins \in AdminReports :
        \E target \in ReadIf(is_admin(user_id, admins), Targets \cup {None}) :
            remove_warnings(Group, user_id, admins, target)

BotSetMode ==
    \E user_id \in Invokers, admins \in AdminReports :
        \E arg \in ReadIf(is_admin(user_id, admins), ModeArgs \cup {None}) :
            set_auto_mode(Group, user_id, admins, arg)

BotRemoveMode ==
    \E user_id \in Invokers, admins \in AdminReports :
        remove_auto_mode(Group, user_id, admins)

BotLeaving == \E bot_left \in BOOLEAN : leaving_handler(Group, bot_left)

\* is_admin asks for the member only in a group (chat_id < 0)
MembersIn(chat_id) == IF chat_id > 0 THEN {"member"} ELSE MemberReports

TgWarn ==
    \E chat_id \in ModChats : \E member \in MembersIn(chat_id), reason \in Reasons :
        \E user_id \in ReadIf(~Gated(chat_id, member), Targets \cup {None}),
           ext \in ReadIf(~Gated(chat_id, member), {"ok", "reply402", "ban406"}) :
            warning(chat_id, member, user_id, reason, ext)

TgBan ==
    \E chat_id \in ModChats : \E member \in MembersIn(chat_id) :
        \E user_id \in ReadIf(~Gated(chat_id, member), Targets \cup {None}),
           ext \in ReadIf(~Gated(chat_id, member), {"ok", "ban237", "reply238"}) :
            ban(chat_id, member, user_id, ext)

TgClear ==
    \E chat_id \in ModChats : \E member \in MembersIn(chat_id) :
        \E user_id \in ReadIf(~Gated(chat_id, member), Targets \cup {None}) :
            removewarnings(chat_id, member, user_id)

TgSetMode ==
    \E chat_id \in ModChats : \E member \in MembersIn(chat_id) :
        \E arg \in ReadIf(~Gated(chat_id, member), ModeArgs \cup {None}) :
            setautomode(chat_id, member, arg)

TgRemoveMode ==
    \E chat_id \in ModChats : \E member \in MembersIn(chat_id) : removeautomode(chat_id, member)

TgMember ==
    \E chat_id \in ModChats, enabled \in BOOLEAN, status \in {"joined", "left", "other"} :
        member_handler(chat_id, enabled, status)

NextMod ==
    \/ BotWarn \/ BotBan \/ BotClear \/ BotSetMode \/ BotRemoveMode \/ BotLeaving
    \/ TgWarn \/ TgBan \/ TgClear \/ TgSetMode \/ TgRemoveMode \/ TgMember

SpecMod == InitProgram /\ [][NextMod]_vars

----------------------------------------------------------------------------
(* The timed sanctions: temp_ban_user and mute_user of src/bot.py, tempban *)
(* and mute of src/tg-bot/bot.py.  p gives the words typed after the       *)
(* subject; the platform splits them at white space into context.args.     *)
(* pd records the words and what parse_duration made of the text built     *)
(* from them.                                                              *)

NonEmpty(f) == f # << >>

\* the arguments after the subject
Tokens(p) == SelectSeq(Split(TextOf(p), " "), NonEmpty)

\* " ".join(args)
RECURSIVE Join(_)
Join(args) ==
    IF args = << >> THEN << >>
    ELSE IF Len(args) = 1 THEN args[1]
    ELSE args[1] \o <<" ">> \o Join(Tail(args))

Falsy_none(span) == ~span.ok

\* if not duration: None and a span of zero are both false
Falsy(span) == ~span.ok \/ span.secs = 0

Parsed(p, text, span) == [pc |-> "done", parts |-> p, text |-> text, result |-> span]

\* ghost: the request went out (sent), did it go through, was it reported
Requested(op, admin, target, ext, call) ==
    [Done(op, admin, target, FALSE)
       EXCEPT !.banReq = 1, !.banOK = ext # call,
              !.notified = ext = "ok", !.error = ext # "ok"]

\* lines 427-455 (temp_ban_user) and 461-493 (mute_user): the two handlers
\* differ in the call they make
Timed(op, chat_id, user_id, admins, target, p, ext, call) ==
    /\ impl = "bot"
    /\ LET admin == Reported(user_id, admins)
           args  == Tokens(p)
           text  == IF Len(args) < 2 THEN << >> ELSE args[1] \o <<" ">> \o args[2]
           span  == parse_duration(text)
       IN  IF ~is_admin(user_id, admins)
           THEN lastw' = Denied(op, admin, "gate") /\ pd' = Parsed(p, << >>, NoSpan)
           ELSE IF target = None
           THEN lastw' = Denied(op, admin, "target") /\ pd' = Parsed(p, << >>, NoSpan)
           ELSE IF Len(args) < 2
           THEN /\ lastw' = [Denied(op, admin, "usage") EXCEPT !.notified = TRUE]
                /\ pd' = Parsed(p, << >>, NoSpan)
           ELSE IF Falsy(span)
           THEN /\ lastw' = [Denied(op, admin, "invalid") EXCEPT !.notified = TRUE]
                /\ pd' = Parsed(p, text, span)
           ELSE /\ lastw' = Requested(op, admin, target, ext, call)
                /\ pd' = Parsed(p, text, span)
    /\ UNCHANGED <<impl, gameVars, group_states, group_warnings, group_automode,
                   group_roles, wh, tally>>

temp_ban_user(chat_id, user_id, admins, target, p, ext) ==
    Timed("tempban", chat_id, user_id, admins, target, p, ext, "ban")

mute_user(chat_id, user_id, admins, target, p, ext) ==
    Timed("mute", chat_id, user_id, admins, target, p, ext, "restrict")

\* lines 270-302 (tempban) and 304-336 (mute): the duration is parsed before
\* the subject is looked up
TimedTg(op, chat_id, member, user_id, p, ext, call) ==
    /\ impl = "tg"
    /\ LET admin == ReportedTg(chat_id, member)
           args  == Tokens(p)
           text  == Join(args)
           td    == parse_duration_tg(text)
       IN  IF Gated(chat_id, member)
           THEN lastw' = Denied(op, admin, "gate") /\ pd' = Parsed(p, << >>, NoSpan)
           ELSE IF Len(args) < 1
           THEN /\ lastw' = [Denied(op, admin, "usage") EXCEPT !.notified = TRUE]
                /\ pd' = Parsed(p, << >>, NoSpan)
           ELSE IF Falsy(td)
           THEN /\ lastw' = [Denied(op, admin, "invalid") EXCEPT !.notified = TRUE]
                /\ pd' = Parsed(p, text, td)
           ELSE IF user_id = None
           THEN /\ lastw' = [Denied(op, admin, "target") EXCEPT !.notified = TRUE]
                /\ pd' = Parsed(p, text, td)
           ELSE /\ lastw' = Requested(op, admin, user_id, ext, call)
                /\ pd' = Parsed(p, text, td)
    /\ UNCHANGED <<impl, gameVars, group_states, group_warnings, group_automode,
                   group_roles, wh, tally>>

tempban(chat_id, member, user_id, p, ext) ==
    TimedTg("tempban", chat_id, member, user_id, p, ext, "ban")

mute(chat_id, member, user_id, p, ext) ==
    TimedTg("mute", chat_id, member, user_id, p, ext, "restrict")

----------------------------------------------------------------------------
(* SpecRoles: the role commands of either program among the other events   *)
(* of a group: mode, clear and ban commands, members and the bot leaving,  *)
(* and (tg) a game played by its two players.                              *)

BotSetRole ==
    \E user_id \in Invokers, admins \in AdminReports :
        \E target \in ReadIf(is_admin(user_id, admins), Targets \cup {None}),
           role_name \in ReadIf(is_admin(user_id, admins), RoleNames \cup {None}) :
            set_role(Group, user_id, admins, target, role_name)

BotRemoveRole ==
    \E user_id \in Invokers, admins \in AdminReports :
        \E target \in ReadIf(is_admin(user_id, admins), Targets \cup {None}) :
            remove_role(Group, user_id, admins, target)

TgRole ==
    \E chat_id \in ModChats : \E member \in MembersIn(chat_id) :
        \E user_id \in ReadIf(~Gated(chat_id, member), Targets \cup {None}),
           role_name \in ReadIf(~Gated(chat_id, member), RoleNames \cup {None}) :
            role(chat_id, member, user_id, role_name)

TgRemoveRole ==
    \E chat_id \in ModChats : \E member \in MembersIn(chat_id) :
        \E user_id \in ReadIf(~Gated(chat_id, member), Targets \cup {None}) :
            removerole(chat_id, member, user_id)

\* the lowest empty cell of a board that has one
LowestFree(board) ==
    CHOOSE c \in Cells : board[c] = Empty /\ \A d \in Cells : board[d] = Empty => c <= d

\* the player whose turn it is presses the lowest empty cell of a stored game
PlayOn ==
    \E game_id \in DOMAIN active_games, announced \in BOOLEAN :
        LET game == active_games[game_id] IN
            /\ ~BoardFull(game.board)
            /\ button_handler(game_id, game.players[game.turn],
                              LowestFree(game.board), announced)

NextRoles ==
    \/ BotSetRole \/ BotRemoveRole \/ TgRole \/ TgRemoveRole
    \/ BotSetMode \/ BotRemoveMode \/ BotClear \/ BotBan \/ BotLeaving
    \/ TgSetMode \/ TgRemoveMode \/ TgClear \/ TgBan \/ TgMember
    \/ StartGame \/ PlayOn

SpecRoles == InitProgram /\ [][NextRoles]_vars

----------------------------------------------------------------------------
(* SpecSanction: the timed sanctions of either program, among the mode     *)
(* commands, which fill a store.                                           *)

\* the words typed after the subject: an amount or none, a gap or none, a
\* unit word or none, a plural s or none
Typed ==
    {p \in Parts : /\ p.lead = << >> /\ p.tail = << >> /\ p.plural = << >>
                   /\ Len(p.gap) <= 1 /\ Len(p.amount) <= 1
                   /\ p.word \in {Hour, Day, <<"y", "e", "a", "r">>, << >>}}

Subjects == {CHOOSE t \in Targets : TRUE, None}

Outcomes == {"ok", "ban", "restrict", "reply"}

BotTempBan ==
    \E user_id \in Invokers, admins \in AdminReports :
        \E target \in ReadIf(is_admin(user_id, admins), Subjects),
           p \in ReadIf(is_admin(user_id, admins), Typed),
           ext \in ReadIf(is_admin(user_id, admins), Outcomes \ {"restrict"}) :
            temp_ban_user(Group, user_id, admins, target, p, ext)

BotMute ==
    \E user_id \in Invokers, admins \in AdminReports :
        \E target \in ReadIf(is_admin(user_id, admins), Subjects),
           p \in ReadIf(is_admin(user_id, admins), Typed),
           ext \in ReadIf(is_admin(user_id, admins), Outcomes \ {"ban"}) :
            mute_user(Group, user_id, admins, target, p, ext)

TgTempBan ==
    \E chat_id \in ModChats : \E member \in MembersIn(chat_id) :
        \E user_id \in ReadIf(~Gated(chat_id, member), Subjects),
           p \in ReadIf(~Gated(chat_id, member), Typed),
           ext \in ReadIf(~Gated(chat_id, member), Outcomes \ {"restrict"}) :
            tempban(chat_id, member, user_id, p, ext)

TgMute ==
    \E chat_id \in ModChats : \E member \in MembersIn(chat_id) :
        \E user_id \in ReadIf(~Gated(chat_id, member), Subjects),
           p \in ReadIf(~Gated(chat_id, member), Typed),
           ext \in ReadIf(~Gated(chat_id, member), Outcomes \ {"ban"}) :
            mute(chat_id, member, user_id, p, ext)

NextSanction ==
    \/ BotTempBan \/ BotMute \/ TgTempBan \/ TgMute
    \/ BotSetMode \/ TgSetMode

SpecSanction == InitProgram /\ [][NextSanction]_vars

----------------------------------------------------------------------------
(* SpecAbandon: the sessions of tg among everything else that happens in   *)
(* the group: further starts, presses that are refused, moderation         *)
(* commands and member events.  The players of a game press the cells in   *)
(* a fixed order: in the first game the order of the cells, which X wins,  *)
(* in the second an order that fills the board without a line.             *)

DrawOrder == <<0, 1, 2, 4, 3, 5, 7, 6, 8>>
WinOrder  == <<0, 1, 2, 3, 4, 5, 6, 7, 8>>

OrderOf(game_id) == IF game_id = "g1" THEN WinOrder ELSE DrawOrder

\* the first cell of the order that is empty
NextIn(order, board) ==
    order[CHOOSE i \in 1 .. Len(order) :
              board[order[i]] = Empty /\ \A k \in 1 .. i - 1 : board[order[k]] # Empty]

\* the player whose turn it is presses the next cell of the game's order
PlayEnds ==
    \E game_id \in DOMAIN active_games, announced \in BOOLEAN :
        LET game == active_games[game_id] IN
            /\ ~BoardFull(game.board)
            /\ button_handler(game_id, game.players[game.turn],
                              NextIn(OrderOf(game_id), game.board), announced)

\* a press that is refused: unknown game, wrong player, occupied cell
Mispress ==
    \E game_id \in LobbyIds, actor \in Users, pos \in Cells :
        /\ apply_move(active_games, game_id, actor, pos).result \in Rejected
        /\ button_handler(game_id, actor, pos, TRUE)

NextAbandon ==
    \/ LobbyStart \/ PlayEnds \/ Mispress
    \/ TgRemoveMode \/ TgBan \/ TgMember

SpecAbandon == InitPlay /\ [][NextAbandon]_vars

----------------------------------------------------------------------------
(* SpecGate: the gate of the moderation commands against the membership    *)
(* the platform holds.  pd is the invoker's status in the group and what   *)
(* the membership query of is_admin comes to: "object" (the answer),       *)
(* "raise" (an exception), and for tg, which calls get_chat_member without *)
(* awaiting it, "coroutine" (an object without a status, which is what the *)
(* call gives in the asynchronous releases of the library).                *)

Statuses == {"administrator", "creator", "member"}

QueryOutcomes == IF impl = "bot" THEN {"object", "raise"}
                 ELSE {"object", "coroutine", "raise"}

\* get_chat_administrators for is_admin of src/bot.py
Listed(p) ==
    IF p.call = "raise" THEN [ok |-> FALSE, ids |-> {}]
    ELSE [ok |-> TRUE,
          ids |-> IF p.status \in {"administrator", "creator"} THEN Invokers ELSE {}]

\* get_chat_member(...) as is_admin of src/tg-bot/bot.py has it in hand
MemberGiven(p) ==
    IF p.call = "object" THEN p.status
    ELSE IF p.call = "coroutine" THEN "pending"
    ELSE "raise"

\* the platform: the invoker is promoted or demoted, the next query fails or
\* not
Platform ==
    /\ \E status \in Statuses, call \in QueryOutcomes :
          pd' = [pc |-> "members", status |-> status, call |-> call]
    /\ pd' # pd
    /\ lastw' = [NoLastW EXCEPT !.op = "members", !.before = lastw.before]
    /\ UNCHANGED <<impl, gameVars, group_states, group_warnings, group_automode,
                   group_roles, wh, tally>>

\* the commands, well-formed, from the one invoker, about the one subject
GateBot ==
    \E user_id \in Invokers, target \in Targets \ Owners :
        \/ warn_user(Group, user_id, Listed(pd), target, "ok")
        \/ ban_user(Group, user_id, Listed(pd), target, "ok")
        \/ remove_warnings(Group, user_id, Listed(pd), target)
        \/ set_auto_mode(Group, user_id, Listed(pd), "strict")
        \/ set_role(Group, user_id, Listed(pd), target, "mod")

GateTg ==
    \E user_id \in Targets \ Owners, reason \in Reasons :
        \/ warning(Group, MemberGiven(pd), user_id, reason, "ok")
        \/ ban(Group, MemberGiven(pd), user_id, "ok")
        \/ removewarnings(Group, MemberGiven(pd), user_id)
        \/ setautomode(Group, MemberGiven(pd), "strict")
        \/ role(Group, MemberGiven(pd), user_id, "mod")

InitGate ==
    /\ impl \in {"bot", "tg"}
    /\ InitGame
    /\ InitMod
    /\ pd = [pc |-> "members", status |-> "member", call |-> "object"]

NextGate == Platform \/ GateBot \/ GateTg

SpecGate == InitGate /\ [][NextGate]_vars

----------------------------------------------------------------------------
(* SpecWarnRace: warn_user of src/bot.py one await at a time, so that two  *)
(* warn calls can be suspended at the same moment. Between two awaits a    *)
(* handler runs alone.                                                     *)

\* lines 528-546: gate, target, increment, the local `warnings`; then the
\* handler is suspended in the reply of line 546
WarnBegin(h, chat_id, user_id, admins, target) ==
    /\ impl = "bot"
    /\ wh[h].pc = "idle"
    /\ is_admin(user_id, admins)
    /\ MayWarn
    /\ LET pre      == CountIn(group_states, chat_id, target)
           s1       == warn_count(group_states, chat_id, target)
           warnings == CountIn(s1, chat_id, target)
       IN  /\ group_states' = s1
           /\ wh' = [wh EXCEPT ![h] = [pc |-> "reply546", chat_id |-> chat_id,
                                       target |-> target, warnings |-> warnings]]
           /\ tally' = [tally EXCEPT ![target] =
                          Tallied(@, pre, warnings, FALSE, FALSE, FALSE)]
    /\ UNCHANGED <<impl, gameVars, pd, group_roles, group_warnings, group_automode, lastw>>

\* line 546 returns or raises; line 548 compares the local `warnings` and
\* reads the mode of the group as it is now
WarnNotified(h, ok) ==
    /\ impl = "bot"
    /\ wh[h].pc = "reply546"
    /\ wh' = [wh EXCEPT ![h] =
                IF ok /\ Escalates(wh[h].warnings, group_states[wh[h].chat_id].automode)
                THEN [@ EXCEPT !.pc = "reply549"]
                ELSE IdleWarn]
    /\ UNCHANGED <<impl, gameVars, pd, group_roles, group_states, group_warnings, group_automode,
                   lastw, tally>>

\* line 549 returns or raises; line 552 sends the ban request
WarnAnnounced(h, ok) ==
    /\ impl = "bot"
    /\ wh[h].pc = "reply549"
    /\ IF ok
       THEN /\ wh' = [wh EXCEPT ![h].pc = "ban552"]
            /\ tally' = [tally EXCEPT ![wh[h].target] = Bump(@, "bans")]
       ELSE /\ wh' = [wh EXCEPT ![h] = IdleWarn]
            /\ UNCHANGED tally
    /\ UNCHANGED <<impl, gameVars, pd, group_roles, group_states, group_warnings,
                   group_automode, lastw>>

\* line 552 returns (line 553 resets the count) or raises (line 555)
WarnBanned(h, ok) ==
    /\ impl = "bot"
    /\ wh[h].pc = "ban552"
    /\ IF ok
       THEN /\ group_states' = warn_reset(group_states, wh[h].chat_id, wh[h].target)
            /\ tally' = [tally EXCEPT ![wh[h].target] =
                           [Bump(@, "banned") EXCEPT !.streak = 0]]
       ELSE UNCHANGED <<group_states, tally>>
    /\ wh' = [wh EXCEPT ![h] = IdleWarn]
    /\ UNCHANGED <<impl, gameVars, pd, group_roles, group_warnings, group_automode, lastw>>

InitBot == impl = "bot" /\ InitGame /\ InitMod /\ pd = NoParse

WarnCall ==
    \E h \in WSlots, user_id \in Invokers, admins \in AdminReports, target \in Targets :
        WarnBegin(h, Group, user_id, admins, target)

WarnStep ==
    \E h \in WSlots, ok \in BOOLEAN :
        WarnNotified(h, ok) \/ WarnAnnounced(h, ok) \/ WarnBanned(h, ok)

NextWarnRace == WarnCall \/ WarnStep \/ BotSetMode \/ BotRemoveMode

SpecWarnRace == InitBot /\ [][NextWarnRace]_vars

----------------------------------------------------------------------------
(* SpecParse: one call of parse_duration of either program on each text.   *)

InitParse ==
    /\ impl \in {"bot", "tg"}
    /\ InitGame
    /\ InitMod
    /\ \E p \in Parts :
         pd = [pc |-> "call", parts |-> p, text |-> TextOf(p), result |-> NoSpan]

NextParse == ParseBot \/ ParseTg

SpecParse == InitParse /\ [][NextParse]_vars

----------------------------------------------------------------------------
(* Claims on the game handled one callback at a time (SpecPlay).           *)

Stored(game_id) == game_id \in DOMAIN active_games

\* C8 as stated: a callback that repeats an already applied (game_id, actor,
\* cell) while the game is still in progress is answered CellOccupied and
\* changes nothing.
C8_ReplayCellOccupied ==
    (last.replay /\ last.open) =>
        (last.result = "CellOccupied" /\ ~last.changed)

\* C8 as amended: such a repeated callback is always rejected and changes
\* neither board nor turn; the rejection is NotYourTurn when the repeating actor
\* made the last accepted move and the two seats are distinct identities (the
\* turn check comes first), and CellOccupied otherwise.
C8_ReplayRejected ==
    (last.replay /\ last.open) =>
        /\ ~last.changed
        /\ last.result = IF last.distinct /\ last.justMoved
                         THEN "NotYourTurn" ELSE "CellOccupied"

C8_Witness ==
    /\ last.replay /\ last.open /\ last.distinct /\ last.justMoved
    /\ last.result = "NotYourTurn"

\* C9: after an accepted non-terminal move the turn index is the other seat,
\* and the next attempt by the player who just moved (two distinct identities,
\* game in progress) is answered NotYourTurn and changes neither board nor turn.
C9_TurnsAlternate ==
    /\ last.result = "Moved" =>
         /\ Stored(last.game_id)
         /\ active_games[last.game_id].turn = 1 - last.seat
    /\ (last.justMoved /\ last.open /\ last.distinct) =>
         (last.result = "NotYourTurn" /\ ~last.changed)

C9_Witness ==
    /\ last.justMoved /\ last.open /\ last.distinct
    /\ last.result = "NotYourTurn"
    /\ Stored(last.game_id)
    /\ Marks(active_games[last.game_id].board) = 1
    /\ active_games[last.game_id].turn = 1

\* C10 as stated: after every accepted move the game is Won exactly when some
\* row, column or diagonal holds three equal marks, and on a win the session is
\* no longer in the store.
C10_WinExactAndRemoved ==
    last.result \in Accepted =>
        /\ (last.result = "Won") <=> last.triple
        /\ last.result = "Won" => ~Stored(last.game_id)

----------------------------------------------------------------------------
(* Claims on interleaved callbacks (SpecGame).                             *)

Ran(h) == cb[h].result \notin {None, "Raised"}

RaceSettled == race.on /\ Ran(race.onTurn) /\ Ran(race.other)

RaceCell == active_games[race.game_id].board[race.pos]

\* C1 as stated: of two callbacks, one from each player, that race for the same
\* empty cell of one game, exactly one places a mark, the other is answered
\* CellOccupied or NotYourTurn, and the cell holds the mark of the seat that was
\* on turn.
C1_OneMarkOtherOccupiedOrTurn ==
    RaceSettled =>
        /\ cb[race.onTurn].result \in Accepted
        /\ cb[race.other].result \in {"CellOccupied", "NotYourTurn"}
        /\ Stored(race.game_id) => RaceCell = Symbol(race.seat)

\* C1 as amended: exactly one of the two places a mark (the callback of the
\* player on turn), the cell holds that seat's mark, and the other callback is
\* answered CellOccupied or NotYourTurn, or GameNotFound when the placed mark
\* ended the game and the session was removed before the other callback ran.
C1_OneMarkOtherRejected ==
    RaceSettled =>
        /\ cb[race.onTurn].result \in Accepted
        /\ cb[race.other].result \in Rejected
        /\ cb[race.other].result = "GameNotFound" =>
              (cb[race.onTurn].result \in {"Won", "Drawn"} /\ ~Stored(race.game_id))
        /\ Stored(race.game_id) => RaceCell = Symbol(race.seat)

C1_Witness ==
    /\ RaceSettled
    /\ cb[race.onTurn].result = "Moved"
    /\ cb[race.other].result = "CellOccupied"
    /\ RaceCell = Symbol(race.seat)

\* C2 as stated, in its weakest reading: once a winning move has been applied,
\* no callback on that game places a further mark, under any interleaving with
\* the winning handler's announcement.  (The claim also says that such a
\* callback is answered GameNotFound; that fails in the same states.)
C2_NoMarkAfterWin ==
    \A h \in Slots : cb[h].late => cb[h].result \notin Accepted

----------------------------------------------------------------------------
(* Claims on warn calls suspended at the same time (SpecWarnRace).         *)

\* C3: the increment, the comparison with the threshold and the reset are
\* one critical section: the count of a subject crossing 3 is answered by
\* one ban and never by two, so a subject has never been banned more often
\* than its count has crossed the threshold.
C3_OneBanPerCrossing == \A t \in Targets : tally[t].banned <= tally[t].crossings

----------------------------------------------------------------------------
(* Claims on the moderation commands handled one at a time (SpecMod).      *)

\* the warning count of a subject in the group, as the running program holds it
Count(t) ==
    IF impl = "bot"
    THEN CountIn(group_states, Group, t)
    ELSE Len(ReasonsIn(group_warnings, Group, t))

\* C4: under strict mode the warn call that takes a subject from 2 to 3
\* emits exactly one ban request and leaves the count at 0, and a warn call
\* that starts from 0 reports a count of 1.
C4_ThirdWarnBansAndResets ==
    (impl = "bot" /\ lastw.op = "warn" /\ lastw.mode = "strict") =>
        /\ lastw.pre = 2 => (lastw.banReq = 1 /\ lastw.after = 0)
        /\ lastw.pre = 0 => lastw.reported = 1

C7_BansBoundedByWarns == \A t \in Targets : tally[t].bans <= tally[t].calls \div 3

----------------------------------------------------------------------------
(* Further claims on the game handled one callback at a time (SpecPlay).   *)

\* C11: an accepted move is declared Drawn exactly when it leaves the board
\* full without a line of three equal marks (so never while a cell is
\* empty), and a drawn session is removed from the store.
C11_DrawExactAndRemoved ==
    last.result \in Accepted =>
        /\ (last.result = "Drawn") <=> (last.full /\ ~last.triple)
        /\ last.result = "Drawn" => ~Stored(last.game_id)

\* C12: a callback answered GameNotFound, NotYourTurn (also for a user who is
\* no player of the game) or CellOccupied leaves the game store as it was.
C12_RejectedLeavesStore == last.result \in Rejected => ~last.changed

\* a user who is no player of the stored game was answered NotYourTurn
C12_Witness ==
    /\ last.result = "NotYourTurn"
    /\ ~last.player
    /\ Stored(last.game_id)
    /\ ~last.changed

\* C13: each of the three game-state errors is reported as an alert to the
\* acting user, never by editing the message the whole chat sees.
C13_ErrorsAreAlerts == last.result \in Rejected => last.notice = "alert"

----------------------------------------------------------------------------
(* Claims on parse_duration (SpecParse).                                   *)

\* the text has the form <n> <unit>[s]: nothing before the digits, n > 0,
\* white space, a unit in any case, an optional s, nothing after
WellFormed(p) ==
    /\ p.lead = << >>
    /\ p.amount # << >> /\ IntOf(p.amount) > 0
    /\ p.gap # << >>
    /\ LowerStr(p.word) \in {Minute, Hour, Day, Week, Month}
    /\ p.tail = << >>

\* C14: for a text of the form <n> <unit>[s] the parser of either program
\* returns n times the unit's fixed number of seconds, and for every other
\* text it reports failure.
C14_ParsesExactlyTheGrammar ==
    pd.pc = "done" =>
        pd.result = IF WellFormed(pd.parts)
                    THEN Span(IntOf(pd.parts.amount) * Seconds(LowerStr(pd.parts.word)))
                    ELSE NoSpan

----------------------------------------------------------------------------
(* Further claims on the moderation commands (SpecMod).                    *)

\* the names of the three modes, in any case the inputs use
ModeNames == {"strict", "normal", "fun", "STRICT"}

\* the mode of the group, as the running program holds it
ModeNow ==
    IF impl = "bot"
    THEN IF Group \in DOMAIN group_states THEN group_states[Group].automode ELSE "unset"
    ELSE AutoModeTg(Group)

\* C15: a set_auto_mode command whose argument names none of strict, normal
\* and fun is answered with an invalid-mode report and changes nothing, in
\* either program.
C15_InvalidModeRejected ==
    (lastw.op \in {"mode", "mode_denied"} /\ lastw.arg # None /\ lastw.arg \notin ModeNames)
        => (lastw.why = "invalid" /\ lastw.notified /\ ~lastw.changed)

\* "weird" was refused while the group was in strict mode, and it still is
C15_Witness ==
    /\ lastw.op = "mode_denied" /\ lastw.why = "invalid" /\ lastw.arg = "weird"
    /\ ModeNow = "strict"

\* C16: no ban request is sent for a subject that is the owner of the group,
\* neither by the ban command nor by the automatic ban of warn.
C16_OwnerNeverSanctioned ==
    (lastw.op \in {"warn", "ban"} /\ lastw.target \in Owners) => lastw.banReq = 0

C18_NonAdminChangesNothing ==
    (lastw.op \notin {None, "left"} /\ ~lastw.admin)
        => (~lastw.changed /\ lastw.banReq = 0)

\* a warn command of a user who is no administrator, in a group with warnings
C18_Witness ==
    /\ lastw.op = "warn_denied" /\ ~lastw.admin
    /\ \E t \in Targets : Count(t) > 0

\* C19: the gate looks at the report made for this command and at nothing
\* earlier: a command whose invoker is not reported as administrator is
\* refused at the gate, also after commands of the same invoker were accepted.
C19_GateAsksEveryTime ==
    (lastw.op \notin {None, "left"} /\ ~lastw.admin) => lastw.why = "gate"

\* an invoker whose earlier command passed the gate is refused now
C19_Witness == lastw.before /\ ~lastw.admin /\ lastw.why = "gate"

\* C20: after clear_warnings the count of the subject is 0, the counts of
\* the other subjects are what they were, and a clear that repeats the
\* command before it changes nothing.
C20_ClearIdempotent ==
    lastw.op = "clear" =>
        /\ lastw.after = 0 /\ Count(lastw.target) = 0
        /\ lastw.others
        /\ lastw.repeat => ~lastw.changed

\* the same clear twice in a row while another subject has warnings
C20_Witness ==
    /\ lastw.op = "clear" /\ lastw.repeat
    /\ \E t \in Targets \ {lastw.target} : Count(t) > 0

----------------------------------------------------------------------------
(* Claims on what the stores keep (SpecMod).                               *)

\* the last event lowered the count on purpose: a clear command, or a warn
\* command whose ban went through and reset the count
LoweredOnPurpose ==
    lastw'.op = "clear" \/ (lastw'.op = "warn" /\ lastw'.banOK)

\* C21 as stated: the warning count of a subject is lowered only by a clear
\* command or by the reset of an escalation; no other event (a member or the
\* bot leaving, a mode command, a ban command) lowers or erases it.
C21_OnlyClearOrResetLowers ==
    [][\A t \in Targets : Count(t)' < Count(t) => LoweredOnPurpose]_vars

\* C21, amended: the warning count of a subject is lowered only by a clear
\* command, by the reset of an escalation, or by the removal of the bot from
\* the group, which drops the whole record of the group (src/bot.py).
C21_LoweredOnlyByClearResetOrEviction ==
    [][\A t \in Targets : Count(t)' < Count(t) =>
          (LoweredOnPurpose \/ (lastw'.op = "left" /\ lastw'.why = "bot"))]_vars

\* a member left (not the bot) while a subject held warnings, and they stay
C21_Witness ==
    /\ lastw.op = "left" /\ lastw.why = None
    /\ \E t \in Targets : Count(t) >= 2

----------------------------------------------------------------------------
(* Claims on the role assignments (SpecRoles).                             *)

\* the role of a subject in the group, as the running program holds it
RoleOf(t) ==
    LET roles == IF impl = "bot"
                 THEN (IF Group \in DOMAIN group_states
                       THEN group_states[Group].roles ELSE << >>)
                 ELSE RolesIn(group_roles, Group)
    IN  IF t \in DOMAIN roles THEN roles[t] ELSE None

\* after a role command that did its work the subject holds the role it named
LastWriteWins == lastw.op = "role" => RoleOf(lastw.target) = lastw.arg

\* the last event changed the role of t as a role command for t does
RoleCommandFor(t) ==
    \/ lastw'.op = "role" /\ lastw'.target = t /\ RoleOf(t)' = lastw'.arg
    \/ lastw'.op = "unrole" /\ lastw'.target = t /\ RoleOf(t)' = None

\* C22 as stated: a role is last-write-wins on reassignment and is deleted
\* only by an explicit remove_role; no other event (a member or the bot
\* leaving, any moderation command, a game callback) removes or changes it.
C22_OnlyRoleCommandsChangeRoles ==
    /\ []LastWriteWins
    /\ [][\A t \in Targets : RoleOf(t)' # RoleOf(t) => RoleCommandFor(t)]_vars

\* C22, amended: a role is last-write-wins on reassignment and is deleted
\* only by an explicit remove_role or by the removal of the bot from the
\* group, which drops the whole record of the group (src/bot.py); no other
\* event removes or changes it.
C22_RolesChangedOnlyByRoleCommandsOrEviction ==
    /\ []LastWriteWins
    /\ [][\A t \in Targets : RoleOf(t)' # RoleOf(t) =>
             \/ RoleCommandFor(t)
             \/ lastw'.op = "left" /\ lastw'.why = "bot" /\ RoleOf(t)' = None]_vars

\* a subject that held a role was given another one, which it now holds,
\* while another subject holds a role of its own
C22_Witness ==
    /\ lastw.op = "role" /\ lastw.repeat /\ lastw.changed
    /\ RoleOf(lastw.target) = lastw.arg
    /\ \E t \in Targets \ {lastw.target} : RoleOf(t) # None

----------------------------------------------------------------------------
(* Claims on the sessions of the store (SpecLobby).                        *)

\* C23: a started game is stored under an identifier that held no session
\* (nothing is overwritten), with the initiator in seat 0, the resolved
\* opponent in seat 1, nine empty cells and turn 0.
C23_StartStoresFreshSession ==
    /\ [](last.result = "Started" =>
            /\ Stored(last.game_id)
            /\ active_games[last.game_id].players[0] = last.by
            /\ active_games[last.game_id].players[1] = last.versus
            /\ \A c \in Cells : active_games[last.game_id].board[c] = Empty
            /\ active_games[last.game_id].turn = 0)
    /\ [][last'.result = "Started" =>
            /\ last'.game_id \notin DOMAIN active_games
            /\ \A g \in DOMAIN active_games :
                  g \in DOMAIN active_games' /\ active_games'[g] = active_games[g]]_vars

\* a second game was started while the first, with marks on its board, is
\* stored
C23_Witness ==
    /\ last.result = "Started" /\ last.by # last.versus
    /\ \E g \in DOMAIN active_games :
          g # last.game_id /\ Marks(active_games[g].board) >= 1

\* the last event was a start command whose opponent was not resolved
UnresolvedStart(l) == l.by # None /\ l.versus = None

\* C24: a start whose opponent is not resolved fails with OpponentNotFound,
\* told in a reply, and adds no session: the store is what it was.
C24_UnresolvedOpponentStoresNothing ==
    /\ [](UnresolvedStart(last) =>
            last.result = "OpponentNotFound" /\ last.notice = "reply" /\ ~last.changed)
    /\ [][UnresolvedStart(last') =>
            active_games' = active_games /\ allocated' = allocated]_vars

\* a start failed while a session was stored and an identifier was free
C24_Witness ==
    /\ UnresolvedStart(last) /\ last.result = "OpponentNotFound"
    /\ active_games # << >>
    /\ allocated # LobbyIds

\* C25: a callback for one game identifier changes no other session: each
\* other stored session stays stored with the same players, board and turn,
\* also when both sessions belong to the same pair of players.
C25_OtherSessionsUntouched ==
    [][last'.result \in Accepted \cup Rejected =>
          \A g \in DOMAIN active_games :
              g # last'.game_id =>
                  g \in DOMAIN active_games' /\ active_games'[g] = active_games[g]]_vars

\* a game was won and removed while the same pair has another session open
\* with marks on its board
C25_Witness ==
    /\ last.result = "Won" /\ last.announced /\ ~Stored(last.game_id)
    /\ \E g \in DOMAIN active_games :
          /\ active_games[g].players[0] = "u1" /\ active_games[g].players[1] = "u2"
          /\ Marks(active_games[g].board) >= 2
          /\ last.distinct

----------------------------------------------------------------------------
(* Claim on the callback payload (SpecPayload).                            *)

\* C26: decoding the payload emitted for a game identifier and a cell
\* yields exactly three fields: the tag, the same identifier and the same
\* cell.
C26_PayloadRoundTrips ==
    pd.pc = "decoded" =>
        /\ pd.result.ok /\ pd.result.fields = 3
        /\ pd.result.tag = Tag
        /\ pd.result.game_id = pd.parts.game_id
        /\ pd.result.pos = pd.parts.cell

\* the payload of an identifier with a hyphen and of the last cell was decoded
C26_Witness ==
    /\ pd.pc = "decoded"
    /\ \E k \in 1 .. Len(pd.parts.game_id) : pd.parts.game_id[k] = "-"
    /\ pd.parts.cell = 8 /\ pd.result.pos = 8

----------------------------------------------------------------------------
(* Claim on the timed sanctions (SpecSanction).                            *)

UnitWords == {Minute, Hour, Day, Week, Month}

\* the words name no duration: no amount (or nothing at all), an amount of
\* zero, or a word that is no unit
NoDuration(p) ==
    p.amount = << >> \/ IntOf(p.amount) = 0 \/ LowerStr(p.word) \notin UnitWords

TimedOps == {"tempban", "mute"}

\* C27: a temp_ban or mute command whose duration text names no duration
\* (no number, no known unit, nothing, or an amount of 0) emits no ban or
\* restriction request and changes no store; past the gate and with a
\* subject, the invoker gets a usage or invalid-duration message only.
C27_BadDurationEmitsNothing ==
    /\ []((lastw.op \in TimedOps /\ pd.pc = "done" /\ NoDuration(pd.parts)) =>
            /\ lastw.banReq = 0
            /\ lastw.why \in {"gate", "target", "usage", "invalid"}
            /\ lastw.why \in {"usage", "invalid"} => lastw.notified)
    /\ [][(lastw'.op \in TimedOps /\ NoDuration(pd'.parts)) =>
            UNCHANGED <<group_states, group_warnings, group_automode, group_roles,
                        active_games>>]_vars

\* a timed sanction with an amount of 0 days was refused as invalid while
\* the group has a mode stored
C27_Witness ==
    /\ lastw.op \in TimedOps /\ lastw.why = "invalid" /\ lastw.notified
    /\ pd.pc = "done" /\ pd.parts.amount = <<"0">> /\ pd.parts.word = Day
    /\ pd.result.ok
    /\ (group_states # << >> \/ group_automode # << >>)

----------------------------------------------------------------------------
(* Claims on the mode of a group (SpecMod).                                *)

\* C28: when the count of a subject got to 3 or more under a mode that is not
\* strict, setting the mode to strict emits no sanction, and the next warn
\* for the subject emits exactly one ban request and leaves the count at 0
\* (src/bot.py).
C28_StrictAfterSoftCountBansOnce ==
    impl = "bot" =>
        /\ lastw.op = "mode" => lastw.banReq = 0
        /\ (lastw.op = "warn" /\ lastw.mode = "strict" /\ lastw.soft) =>
               (lastw.pre >= 3 /\ lastw.banReq = 1 /\ lastw.after = 0)

\* the mode src/bot.py reads for the group: group["automode"] of the record
\* that get_group_state returns
ModeRead == get_group_state(group_states, Group)[Group].automode

\* C29: the mode of a group is always one of strict, normal and fun; it is
\* normal as long as none was set, and normal after remove_auto_mode
\* (src/bot.py; in tg-bot a stored mode is one of the three).
C29_ModeIsOneOfThreeDefaultNormal ==
    /\ impl = "bot" => ModeRead = "normal"
    /\ [](/\ ModeRead \in Modes
          /\ \A c \in DOMAIN group_automode : group_automode[c] \in Modes
          /\ (impl = "bot" /\ lastw.op = "unmode") => ModeRead = "normal")
    /\ [][(impl = "bot" /\ ModeRead = "normal" /\ ModeRead' # "normal")
             => lastw'.op = "mode"]_vars

\* the mode was strict and a remove_auto_mode command made it normal, while
\* a subject holds warnings
C29_Witness ==
    /\ impl = "bot" /\ lastw.op = "unmode" /\ lastw.changed
    /\ ModeRead = "normal"
    /\ \E t \in Targets : Count(t) >= 1

----------------------------------------------------------------------------
(* Claim on the life of a session (SpecAbandon).                           *)

\* C30: a session leaves the store only in the callback that detects the
\* win or the draw of that game; no other event (another start, a refused
\* press, a moderation command, a member event) removes it.
C30_RemovedOnlyByWinOrDraw ==
    [][\A g \in DOMAIN active_games :
          g \notin DOMAIN active_games' =>
              (last'.game_id = g /\ last'.result \in {"Won", "Drawn"})]_vars

\* one game ended and left the store; the other, with marks on its board,
\* is still stored after a ban command that did its work and a refused press
C30_Witness ==
    /\ allocated = LobbyIds
    /\ Cardinality(DOMAIN active_games) = 1
    /\ \E g \in DOMAIN active_games : Marks(active_games[g].board) >= 2
    /\ lastw.op = "ban" /\ lastw.banReq = 1
    /\ last.result \in Rejected

----------------------------------------------------------------------------
(* Claim on payloads nobody emitted (SpecCallback).                        *)

\* the fields of a payload, and its cell when the third field is a number
FieldsOf(text) == Split(text, "_")

Malformed(text) == Len(FieldsOf(text)) # 3 \/ ~IsInt(FieldsOf(text)[3])

NoCell(text) == ~Malformed(text) /\ IntOfSigned(FieldsOf(text)[3]) \notin Cells

\* C31: a callback whose payload is malformed (not three fields, or a cell
\* that is no number) or names a cell outside 0..8 (negative ones included)
\* ends without an exception leaving the handler and places no mark.
C31_BadPayloadRejectedQuietly ==
    (pd.pc = "callback" /\ IsPrefix(Tag \o <<"_">>, pd.text)
       /\ (Malformed(pd.text) \/ NoCell(pd.text))) =>
        /\ pd.raised = None
        /\ last.result \notin Accepted

----------------------------------------------------------------------------
(* Claims on the gate and the platform's membership (SpecGate).            *)

\* the last event is a command, and pd is the membership it was judged by
Judged == lastw.op \notin {None, "members"}

\* C32: a moderation command in a group from an invoker whom the platform
\* holds as administrator or creator passes the gate and is executed: the
\* warn is counted, the ban is requested (both implementations).
C32_AdminPassesGate ==
    (Judged /\ pd.status \in {"administrator", "creator"} /\ pd.call # "raise") =>
        /\ lastw.why # "gate"
        /\ lastw.op \in {"warn", "ban", "clear", "mode", "role"}
        /\ lastw.op = "warn" => lastw.changed
        /\ lastw.op = "ban" => lastw.banReq = 1

\* C39: the gate fails closed: a command judged while the membership query
\* raises is refused at the gate, changes no store of the moderation state
\* and emits no sanction request (both implementations).
C39_GateFailsClosed ==
    /\ [](Judged /\ pd.call = "raise" =>
             /\ lastw.why = "gate" /\ ~lastw.admin
             /\ ~lastw.changed /\ lastw.banReq = 0)
    /\ [][(pd.call = "raise" /\ pd' = pd) =>
             UNCHANGED <<group_states, group_warnings, group_automode, group_roles>>]_vars

\* a command of an administrator, whose earlier warn was counted, is refused
\* while the query raises
C39_Witness ==
    /\ Judged /\ pd.call = "raise" /\ pd.status = "administrator"
    /\ lastw.why = "gate" /\ lastw.before
    /\ \E t \in Targets : Count(t) > 0

----------------------------------------------------------------------------
(* Claims on the end of a game (SpecPlay).                                 *)

\* a session whose board holds a line of three or has no empty cell
Finished(game) == ThreeInLine(game.board) \/ BoardFull(game.board)

\* C33: when the external call of the announcement of a win or a draw fails,
\* the finished session is removed all the same: after a handler has ended no
\* stored session holds a winning triple or a full board.
C33_FinishedSessionRemovedDespiteFailure ==
    /\ (last.result \in {"Won", "Drawn"} /\ ~last.announced) => ~Stored(last.game_id)
    /\ \A g \in DOMAIN active_games : ~Finished(active_games[g])

----------------------------------------------------------------------------
(* Claim on the removal under interleaved callbacks (SpecGame).            *)

\* C34: however the callbacks on one game id are interleaved, the session is
\* removed at most once: no handler deletes a session that another handler
\* has removed already, so no missing-key error leaves a handler.
C34_RemovedAtMostOnce == \A h \in Slots : cb[h].result # "KeyError"

\* the number of cells of a board that hold a mark
CountOf(board, mark) == Cardinality({c \in Cells : board[c] = mark})

\* C35: in every stored session, whether its players are two identities or
\* one, there are as many X as O or one X more, and while the board has no
\* line of three the turn index is the number of marks modulo 2.
C35_MarksBalancedAndTurnFollows ==
    \A g \in DOMAIN active_games :
        LET game == active_games[g] IN
            /\ CountOf(game.board, "X") - CountOf(game.board, "O") \in {0, 1}
            /\ ~ThreeInLine(game.board) => game.turn = Marks(game.board) % 2

\* C36: a move that fills the ninth cell and completes a line of three is
\* answered Won, for the seat that moved, and not Drawn: the win is looked
\* for before the full board.
C36_WinBeforeDraw ==
    (last.result \in Accepted /\ last.full /\ last.triple) =>
        /\ last.result = "Won"
        /\ Stored(last.game_id) =>
              /\ active_games[last.game_id].turn = last.seat
              /\ \E line \in Lines :
                    \A c \in line :
                        active_games[last.game_id].board[c] = Symbol(last.seat)

\* a game in progress with eight marks was won by the ninth; the
\* announcement went through and the session is gone
C36_Witness ==
    /\ last.result = "Won" /\ last.full /\ last.triple
    /\ last.open /\ last.distinct /\ last.announced
    /\ ~Stored(last.game_id)

----------------------------------------------------------------------------
(* Claim on the reset of the count in warn_user (SpecMod, src/bot.py).     *)

\* a warn of src/bot.py that was counted under strict mode
StrictWarn(w) == impl = "bot" /\ w.op = "warn" /\ w.mode = "strict"

\* C37: under strict mode warn_user resets the count only after the ban call
\* succeeded; when the ban call fails the count stays at its value of 3 or
\* more, and the next warn for that subject attempts a ban again.
C37_ResetOnlyAfterBanAndRetry ==
    /\ [](StrictWarn(lastw) =>
             /\ lastw.after < lastw.reported => lastw.banOK
             /\ (lastw.banReq = 1 /\ ~lastw.banOK) =>
                    (lastw.after = lastw.reported /\ lastw.after >= 3))
    /\ [][(StrictWarn(lastw) /\ lastw.banReq = 1 /\ ~lastw.banOK
             /\ StrictWarn(lastw') /\ lastw'.target = lastw.target
             /\ lastw' # lastw) => lastw'.banReq = 1]_vars

----------------------------------------------------------------------------
(* Claim on the end of every game (SpecFinish).                            *)

\* C38: every game terminates: a session accepts at most 9 presses, and
\* when the player on turn keeps pressing empty cells and the external calls
\* go through, the session comes to Won or Drawn and leaves the store.
C38_EveryGameTerminates ==
    /\ [](\A g \in GameIds : pd.n[g] <= 9)
    /\ \A g \in GameIds :
          Stored(g) ~> (~Stored(g) /\ last.game_id = g /\ last.result \in {"Won", "Drawn"})

\* a game that took all nine presses ended in a draw and is gone
C38_Witness ==
    /\ pd.n["g1"] = 9
    /\ last.result = "Drawn" /\ last.game_id = "g1"
    /\ ~Stored("g1")

====
